---- MODULE Spec2Model ----
(***************************************************************************)
(* A model of hyprvoice: the control daemon (internal/daemon/daemon.go),   *)
(* the pipeline session worker (internal/pipeline/pipeline.go) and the     *)
(* lockfile / endpoint manager (internal/bus/bus.go).                      *)
(*                                                                         *)
(* Every goroutine of the program is a process of the model; one action is *)
(* one step of a goroutine between two accesses to shared state.           *)
(***************************************************************************)
EXTENDS Integers, Sequences, FiniteSets, TLC

VARIABLES
    pl,        \* the pipelines created so far: a sequence of pipeline records
    daemon,    \* the Daemon struct: pipeline reference, mode override, notifier, root context
    cfgStore,  \* the configuration manager's current snapshot
    conn,      \* the connection handlers (one goroutine per accepted connection)
    reload,    \* the goroutine running the configuration reload callback
    proc,      \* the daemon processes: where each is in Daemon.Run
    fs,        \* the cache directory: lockfile and endpoint
    call       \* a library function called on its own: its arguments and its result

vars == <<pl, daemon, cfgStore, conn, reload, proc, fs, call>>

\* no library function is being called on its own
NoCall == [fn |-> "none"]

---------------------------------------------------------------------------
(* Bounds of the model *)

\* connections accepted in one run of the daemon
MaxCommands == 3
\* configuration reloads in one run of the daemon
MaxReloads == 1
\* toggles sent in a run in which every goroutine is scheduled fairly
MaxToggles == 2

(* Program constants *)

\* capacity of the action mailbox
ActionCap == 1
\* capacity of the error mailbox
ErrorCap == 10
\* nil pipeline reference
NoPipeline == 0
\* the daemon process whose handlers and pipelines are modelled
Self == 1
\* the daemon processes started against one cache directory
Procs == {1, 2}

\* pipeline.Status values; Unset is the zero value of the Go string type
Unset == ""
Idle == "idle"
Recording == "recording"
Transcribing == "transcribing"
Injecting == "injecting"

\* pipeline.Action values
Inject == "inject"
Cancel == "cancel"

Modes == {"raw", "llm"}
\* what hyprctl reports as the active window ("" when it fails)
Windows == {"", "0xw1"}
\* what the transcriber returns as the final text
Texts == {"", "hello"}

Pipelines == 1..Len(pl)
Conns == DOMAIN conn

---------------------------------------------------------------------------
(* internal/pipeline/pipeline.go *)

\* New(cfg): the status field is left at its zero value.
\* injected, monitors and early are history: the calls of the injector, the monitors
\* spawned for the pipeline, and whether an Inject was delivered in state Recording.
\* wpc is the position of the worker that was started last, workers counts the run
\* goroutines that have not returned, started those ever spawned; defers counts the
\* workers that were superseded by a later Run while inside their deferred function.
\* rStarted and tStarted tell whether the worker started last has started its recorder
\* and its transcriber, rStops and tStops count its calls of their Stop.
\* frameEnd tells that the recorder has closed frameCh, spins counts the receives of
\* the worker on the closed stream.
New(cfg) ==
    [ status        |-> Unset,
      actionCh      |-> <<>>,
      errorCh       |-> <<>>,
      config        |-> cfg,
      windowAddress |-> "",
      ctx           |-> "none",
      stopOnce      |-> FALSE,
      running       |-> FALSE,
      wpc           |-> "none",
      workers       |-> 0,
      finalText     |-> "",
      injected      |-> <<>>,
      monitors      |-> 0,
      early         |-> FALSE,
      started       |-> 0,
      defers        |-> 0,
      frameCh       |-> <<>>,
      emitted       |-> 0,
      heard         |-> <<>>,
      forwarders    |-> FALSE,
      tErrs         |-> 0,
      rErrs         |-> 0,
      rStarted      |-> FALSE,
      tStarted      |-> FALSE,
      rStops        |-> 0,
      tStops        |-> 0,
      frameEnd      |-> FALSE,
      spins         |-> 0 ]

setStatus(P, s) == [P EXCEPT !.status = s]

SetWindowAddress(P, a) == [P EXCEPT !.windowAddress = a]

\* a sendError that appends whatever the mailbox holds
sendError_Unbounded(P, msg) == [P EXCEPT !.errorCh = Append(@, msg)]

\* sendError: a non-blocking send, the error is dropped when the mailbox is full
sendError(P, msg) ==
    IF Len(P.errorCh) < ErrorCap
    THEN [P EXCEPT !.errorCh = Append(@, msg)]
    ELSE P

\* a session context that is not derived from the daemon's root context
ctxDone_NoRoot(P) == P.ctx \in {"cancelled", "deadline"}

\* a session context without a deadline (context.WithCancel instead of WithTimeout)
ctxDone_NoDeadline(P) == P.ctx = "cancelled" \/ proc[Self].cancelled

\* ctx.Done() of the session context: cancel(), the recording deadline, or the
\* daemon's root context
ctxDone(P) == P.ctx \in {"cancelled", "deadline"} \/ proc[Self].cancelled

\* Run(ctx): compare-and-swap of the running flag, context with timeout, worker spawned
PipelineRun(P) ==
    IF P.running
    THEN P
    ELSE [P EXCEPT !.running = TRUE, !.ctx = "live", !.wpc = "start",
                   !.workers = @ + 1, !.started = @ + 1,
                   !.defers = IF P.wpc = "cleanup" THEN @ + 1 ELSE @,
                   !.rStarted = FALSE, !.tStarted = FALSE,
                   !.rStops = 0, !.tStops = 0]

\* run: setStatus(Recording)
WorkerStart(p) ==
    /\ pl[p].wpc = "start"
    /\ pl' = [pl EXCEPT ![p] = [setStatus(@, Recording) EXCEPT !.wpc = "record"]]
    /\ UNCHANGED <<daemon, cfgStore, conn, reload, proc, fs, call>>

\* run: recorder.Start fails
WorkerRecorderFails(p) ==
    /\ pl[p].wpc = "record"
    /\ pl' = [pl EXCEPT ![p] =
                [sendError(@, "Failed to start recording") EXCEPT !.wpc = "exit"]]
    /\ UNCHANGED <<daemon, cfgStore, conn, reload, proc, fs, call>>

\* run: recorder.Start succeeds, NewTranscriber fails (deferred recorder.Stop)
WorkerNewTranscriberFails(p) ==
    /\ pl[p].wpc = "record"
    /\ pl' = [pl EXCEPT ![p] =
                [sendError(@, "Failed to create transcriber")
                   EXCEPT !.wpc = "exit", !.rStarted = TRUE]]
    /\ UNCHANGED <<daemon, cfgStore, conn, reload, proc, fs, call>>

\* run: recorder.Start and NewTranscriber succeed, setStatus(Transcribing)
WorkerTranscribing(p) ==
    /\ pl[p].wpc = "record"
    /\ pl' = [pl EXCEPT ![p] = [setStatus(@, Transcribing)
                                  EXCEPT !.wpc = "tstart", !.rStarted = TRUE]]
    /\ UNCHANGED <<daemon, cfgStore, conn, reload, proc, fs, call>>

\* run: t.Start fails (deferred recorder.Stop)
WorkerTranscriberStartFails(p) ==
    /\ pl[p].wpc = "tstart"
    /\ pl' = [pl EXCEPT ![p] =
                [sendError(@, "Failed to start transcriber") EXCEPT !.wpc = "exit"]]
    /\ UNCHANGED <<daemon, cfgStore, conn, reload, proc, fs, call>>

\* run: t.Start succeeds, the two error forwarders are spawned, the supervision loop
\* is entered
WorkerLoop(p) ==
    /\ pl[p].wpc = "tstart"
    /\ pl' = [pl EXCEPT ![p].wpc = "loop", ![p].forwarders = TRUE, ![p].tStarted = TRUE]
    /\ UNCHANGED <<daemon, cfgStore, conn, reload, proc, fs, call>>

\* handleInjectAction, first part: the status check and setStatus(Injecting)
handleInjectAction(P) ==
    IF P.status # Transcribing
    THEN [P EXCEPT !.wpc = "exit"]
    ELSE [setStatus(P, Injecting) EXCEPT !.wpc = "finalize"]

\* run, select case action := <-p.actionCh
WorkerAction(p) ==
    /\ pl[p].wpc = "loop"
    /\ Len(pl[p].actionCh) > 0
    /\ LET a == Head(pl[p].actionCh)
           P == [pl[p] EXCEPT !.actionCh = Tail(@)]
       IN pl' = [pl EXCEPT ![p] = IF a = Inject THEN handleInjectAction(P) ELSE P]
    /\ UNCHANGED <<daemon, cfgStore, conn, reload, proc, fs, call>>

\* a worker that reports the end of its context as an error
WorkerCtxDone_Reports(p) ==
    /\ pl[p].wpc = "loop"
    /\ ctxDone(pl[p])
    /\ pl' = [pl EXCEPT ![p] = [sendError(@, "Session timed out") EXCEPT !.wpc = "exit"]]
    /\ UNCHANGED <<daemon, cfgStore, conn, reload, proc, fs, call>>

\* run, select case <-ctx.Done() (deferred t.Stop and recorder.Stop)
WorkerCtxDone(p) ==
    /\ pl[p].wpc = "loop"
    /\ ctxDone(pl[p])
    /\ pl' = [pl EXCEPT ![p].wpc = "exit"]
    /\ UNCHANGED <<daemon, cfgStore, conn, reload, proc, fs, call>>

\* the frames one recorder emits
MaxFrames == 2

\* the recorder, between its Start and its Stop, emits the next frame on its frame stream
RecorderEmit(p) ==
    /\ pl[p].wpc \in {"tstart", "loop"}
    /\ pl[p].emitted < MaxFrames
    /\ ~pl[p].frameEnd
    /\ pl' = [pl EXCEPT ![p].emitted = @ + 1, ![p].frameCh = Append(@, pl[p].emitted + 1)]
    /\ UNCHANGED <<daemon, cfgStore, conn, reload, proc, fs, call>>

\* the transcriber, once started, consumes a frame of the stream it was given
TranscriberRecv(p) ==
    /\ pl[p].wpc \in {"loop", "finalize"}
    /\ pl[p].frameCh # <<>>
    /\ pl' = [pl EXCEPT ![p].heard = Append(@, Head(pl[p].frameCh)), ![p].frameCh = Tail(@)]
    /\ UNCHANGED <<daemon, cfgStore, conn, reload, proc, fs, call>>

\* run, select case <-frameCh: the frame received is dropped
WorkerFrame(p) ==
    /\ pl[p].wpc = "loop"
    /\ pl[p].frameCh # <<>>
    /\ pl' = [pl EXCEPT ![p].frameCh = Tail(@)]
    /\ UNCHANGED <<daemon, cfgStore, conn, reload, proc, fs, call>>

\* the receives on a closed stream that are followed
MaxSpins == 2

\* the recorder closes its frame stream: the source has ended
RecorderClose(p) ==
    /\ pl[p].wpc \in {"tstart", "loop"}
    /\ ~pl[p].frameEnd
    /\ pl' = [pl EXCEPT ![p].frameEnd = TRUE]
    /\ UNCHANGED <<daemon, cfgStore, conn, reload, proc, fs, call>>

\* a supervision loop that returns when the frame stream has ended
WorkerFrameEnd_Returns(p) ==
    /\ pl[p].wpc = "loop"
    /\ pl[p].frameCh = <<>>
    /\ pl[p].frameEnd
    /\ pl[p].spins < MaxSpins
    /\ pl' = [pl EXCEPT ![p].spins = @ + 1, ![p].wpc = "exit"]
    /\ UNCHANGED <<daemon, cfgStore, conn, reload, proc, fs, call>>

\* run, select case <-frameCh on the closed and drained stream: the receive returns
\* the zero value at once, the case has no body, the loop goes round again
WorkerFrameEnd(p) ==
    /\ pl[p].wpc = "loop"
    /\ pl[p].frameCh = <<>>
    /\ pl[p].frameEnd
    /\ pl[p].spins < MaxSpins
    /\ pl' = [pl EXCEPT ![p].spins = @ + 1]
    /\ UNCHANGED <<daemon, cfgStore, conn, reload, proc, fs, call>>

\* the errors one component's error stream delivers in a session
MaxStreamErrors == 6

\* run, the forwarder of tErrCh: an error of the transcriber's stream is received and
\* handed to sendError
ForwardTranscriberError(p) ==
    /\ pl[p].forwarders
    /\ pl[p].tErrs < MaxStreamErrors
    /\ pl' = [pl EXCEPT ![p] = [sendError(@, "Transcription processing error")
                                  EXCEPT !.tErrs = @ + 1]]
    /\ UNCHANGED <<daemon, cfgStore, conn, reload, proc, fs, call>>

\* run, the forwarder of rErrCh
ForwardRecorderError(p) ==
    /\ pl[p].forwarders
    /\ pl[p].rErrs < MaxStreamErrors
    /\ pl' = [pl EXCEPT ![p] = [sendError(@, "Recording stream error")
                                  EXCEPT !.rErrs = @ + 1]]
    /\ UNCHANGED <<daemon, cfgStore, conn, reload, proc, fs, call>>

\* handleInjectAction: recorder.Stop, then t.Stop fails
WorkerStopTranscriberFails(p) ==
    /\ pl[p].wpc = "finalize"
    /\ pl' = [pl EXCEPT ![p] =
                [sendError(@, "Failed to stop transcriber during injection")
                   EXCEPT !.wpc = "exit", !.rStops = @ + 1, !.tStops = @ + 1]]
    /\ UNCHANGED <<daemon, cfgStore, conn, reload, proc, fs, call>>

\* handleInjectAction: t.Stop succeeds, GetFinalTranscription fails
WorkerFinalTextFails(p) ==
    /\ pl[p].wpc = "finalize"
    /\ pl' = [pl EXCEPT ![p] =
                [sendError(@, "Failed to retrieve transcription")
                   EXCEPT !.wpc = "exit", !.rStops = @ + 1, !.tStops = @ + 1]]
    /\ UNCHANGED <<daemon, cfgStore, conn, reload, proc, fs, call>>

\* handleInjectAction: t.Stop and GetFinalTranscription succeed
WorkerFinalText(p, text) ==
    /\ pl[p].wpc = "finalize"
    /\ pl' = [pl EXCEPT ![p].finalText = text, ![p].wpc = "inject",
                        ![p].rStops = @ + 1, ![p].tStops = @ + 1]
    /\ UNCHANGED <<daemon, cfgStore, conn, reload, proc, fs, call>>

\* a handleInjectAction that calls the injector again when it has failed
WorkerInject_Retries(p, ok) ==
    /\ pl[p].wpc = "inject"
    /\ LET once == Append(pl[p].injected, <<pl[p].finalText, pl[p].windowAddress>>)
           P == [pl[p] EXCEPT !.injected =
                    IF ok /\ pl[p].finalText # "" THEN once
                    ELSE Append(once, <<pl[p].finalText, pl[p].windowAddress>>)]
           Q == IF ok /\ P.finalText # "" THEN P
                ELSE sendError(P, "Failed to inject text")
       IN pl' = [pl EXCEPT ![p] = [setStatus(Q, Idle) EXCEPT !.wpc = "exit"]]
    /\ UNCHANGED <<daemon, cfgStore, conn, reload, proc, fs, call>>

\* handleInjectAction: injector.Inject(ctx, text, windowAddress), then setStatus(Idle).
\* The injector rejects an empty text; a backend may fail.
WorkerInject(p, ok) ==
    /\ pl[p].wpc = "inject"
    /\ LET P == [pl[p] EXCEPT !.injected =
                    Append(@, <<pl[p].finalText, pl[p].windowAddress>>)]
           Q == IF ok /\ P.finalText # "" THEN P
                ELSE sendError(P, "Failed to inject text")
       IN pl' = [pl EXCEPT ![p] = [setStatus(Q, Idle) EXCEPT !.wpc = "exit"]]
    /\ UNCHANGED <<daemon, cfgStore, conn, reload, proc, fs, call>>

\* a run that registers no deferred Stop
DeferredStops_None(P) == P

\* run, the deferred calls registered after a successful start: t.Stop(ctx) when the
\* transcriber was started, then recorder.Stop() when the recorder was started
DeferredStops(P) ==
    [P EXCEPT !.tStops = IF P.tStarted THEN @ + 1 ELSE @,
              !.rStops = IF P.rStarted THEN @ + 1 ELSE @]

\* a deferred function of run that leaves the running flag set
WorkerExit_KeepsRunning(p) ==
    /\ pl[p].wpc = "exit"
    /\ pl' = [pl EXCEPT ![p] = [DeferredStops(@) EXCEPT !.wpc = "cleanup"]]
    /\ UNCHANGED <<daemon, cfgStore, conn, reload, proc, fs, call>>

\* run, deferred, last registered first: t.Stop, recorder.Stop, p.running.Store(false)
WorkerExit(p) ==
    /\ pl[p].wpc = "exit"
    /\ pl' = [pl EXCEPT ![p] = [DeferredStops(@) EXCEPT !.running = FALSE,
                                                        !.wpc = "cleanup"]]
    /\ UNCHANGED <<daemon, cfgStore, conn, reload, proc, fs, call>>

\* run, deferred: p.setStatus(Idle); p.wg.Done()
WorkerDone(p) ==
    /\ pl[p].wpc = "cleanup"
    /\ pl' = [pl EXCEPT ![p] = [setStatus(@, Idle) EXCEPT !.wpc = "done",
                                                          !.workers = @ - 1]]
    /\ UNCHANGED <<daemon, cfgStore, conn, reload, proc, fs, call>>

\* run, deferred, of a worker after which Run has spawned another:
\* p.setStatus(Idle); p.wg.Done()
WorkerDeferred(p) ==
    /\ pl[p].defers > 0
    /\ pl' = [pl EXCEPT ![p] = [setStatus(@, Idle) EXCEPT !.defers = @ - 1,
                                                          !.workers = @ - 1]]
    /\ UNCHANGED <<daemon, cfgStore, conn, reload, proc, fs, call>>

\* the deadline of context.WithTimeout(ctx, Recording.Timeout) passes; the worker
\* reads the context in its supervision loop only, the step is taken there
Deadline(p) ==
    /\ pl[p].ctx = "live"
    /\ pl[p].wpc = "loop"
    /\ pl' = [pl EXCEPT ![p].ctx = "deadline"]
    /\ UNCHANGED <<daemon, cfgStore, conn, reload, proc, fs, call>>

\* the deadline passes while the worker is outside its supervision loop
DeadlineOutsideLoop(p) ==
    /\ pl[p].ctx = "live"
    /\ pl[p].wpc \in {"start", "record", "tstart", "finalize", "inject"}
    /\ pl' = [pl EXCEPT ![p].ctx = "deadline"]
    /\ UNCHANGED <<daemon, cfgStore, conn, reload, proc, fs, call>>

\* Stop: stopOnce.Do(cancel)
PipelineStop(P) ==
    IF P.stopOnce THEN P
    ELSE [P EXCEPT !.stopOnce = TRUE,
                   !.ctx = IF @ = "live" THEN "cancelled" ELSE @]

\* Stop: p.wg.Wait() returns
WaitDone(P) == P.workers = 0

---------------------------------------------------------------------------
(* internal/bus/bus.go *)

DigitChars == <<"0", "1", "2", "3", "4", "5", "6", "7", "8", "9">>

IsDigit(ch) == \E k \in 1..10 : DigitChars[k] = ch

DigitVal(ch) == (CHOOSE k \in 1..10 : DigitChars[k] = ch) - 1

\* strconv.Itoa of a non-negative number
RECURSIVE Itoa(_)
Itoa(n) ==
    IF n < 10 THEN <<DigitChars[n + 1]>>
    ELSE Itoa(n \div 10) \o <<DigitChars[(n % 10) + 1]>>

RECURSIVE DigitsVal(_)
DigitsVal(s) ==
    IF s = <<>> THEN 0
    ELSE 10 * DigitsVal(SubSeq(s, 1, Len(s) - 1)) + DigitVal(s[Len(s)])

AllDigits(s) == s # <<>> /\ \A k \in 1..Len(s) : IsDigit(s[k])

\* strconv.Atoi: an optional sign, then one or more digits; anything else is an error
Atoi(s) ==
    IF AllDigits(s) THEN [ok |-> TRUE, val |-> DigitsVal(s)]
    ELSE IF s # <<>> /\ s[1] \in {"+", "-"} /\ AllDigits(Tail(s))
    THEN [ok |-> TRUE,
          val |-> IF s[1] = "-" THEN 0 - DigitsVal(Tail(s)) ELSE DigitsVal(Tail(s))]
    ELSE [ok |-> FALSE, val |-> 0]

\* os.Getpid of daemon process i
Pid(i) == 10 + i

AbsentFile == [exists |-> FALSE, data |-> <<>>, readable |-> TRUE]

\* isProcessAlive: the zero-signal probe succeeds for a running daemon process and for
\* the other processes of the system that accept it
isProcessAlive(pid) ==
    \/ \E i \in Procs : Pid(i) = pid /\ proc[i].pc \notin {"off", "returned"}
    \/ pid \in fs.alive

\* a checkExisting that reports a stale lockfile as clear but leaves it in place
checkExisting_KeepStale(f) ==
    IF ~f.exists THEN [err |-> "", pid |-> 0, file |-> f]
    ELSE IF ~f.readable THEN [err |-> "read_error", pid |-> 0, file |-> f]
    ELSE LET a == Atoi(f.data) IN
         IF a.ok /\ isProcessAlive(a.val)
         THEN [err |-> "already_running", pid |-> a.val, file |-> f]
         ELSE [err |-> "", pid |-> 0, file |-> f]

\* checkExisting: the error returned and the lockfile left behind
checkExisting(f) ==
    IF ~f.exists THEN [err |-> "", pid |-> 0, file |-> f]
    ELSE IF ~f.readable THEN [err |-> "read_error", pid |-> 0, file |-> f]
    ELSE LET a == Atoi(f.data) IN
         IF ~a.ok THEN [err |-> "", pid |-> 0, file |-> AbsentFile]
         ELSE IF isProcessAlive(a.val)
         THEN [err |-> "already_running", pid |-> a.val, file |-> f]
         ELSE [err |-> "", pid |-> 0, file |-> AbsentFile]

\* create: the lockfile written by daemon process i
create(i) == [exists |-> TRUE, data |-> Itoa(Pid(i)), readable |-> TRUE]

\* remove: os.Remove of the lockfile, absence is not an error
remove(f) == AbsentFile

---------------------------------------------------------------------------
(* internal/daemon/daemon.go: Daemon.Run *)

\* the process starts: daemon.New, then Run is called
RunStart(i) ==
    /\ proc[i].pc = "off"
    /\ proc' = [proc EXCEPT ![i].pc = "check"]
    /\ UNCHANGED <<pl, daemon, cfgStore, conn, reload, fs, call>>

\* Run: bus.CheckExistingDaemon
RunCheckExisting(i) ==
    /\ proc[i].pc = "check"
    /\ LET r == checkExisting(fs.pid) IN
       /\ fs' = [fs EXCEPT !.pid = r.file]
       /\ proc' = [proc EXCEPT ![i].pc = IF r.err = "" THEN "listen" ELSE "returned",
                               ![i].err = r.err,
                               ![i].seen = r.pid]
    /\ UNCHANGED <<pl, daemon, cfgStore, conn, reload, call>>

\* Run: SetOnConfigReload, bus.Listen (unlink the endpoint, bind); defer ln.Close
RunListen(i) ==
    /\ proc[i].pc = "listen"
    /\ fs' = [fs EXCEPT !.sock = i]
    /\ proc' = [proc EXCEPT ![i].pc = "create", ![i].ln = "open"]
    /\ UNCHANGED <<pl, daemon, cfgStore, conn, reload, call>>

\* Run: bus.Listen fails (the directory cannot be created)
RunListenFails(i) ==
    /\ proc[i].pc = "listen"
    /\ proc' = [proc EXCEPT ![i].pc = "returned", ![i].err = "listen_failed"]
    /\ UNCHANGED <<pl, daemon, cfgStore, conn, reload, fs, call>>

\* Run: bus.CreatePidFile; defer bus.RemovePidFile
RunCreatePidFile(i) ==
    /\ proc[i].pc = "create"
    /\ fs' = [fs EXCEPT !.pid = create(i)]
    /\ proc' = [proc EXCEPT ![i].pc = "watch", ![i].created = TRUE]
    /\ UNCHANGED <<pl, daemon, cfgStore, conn, reload, call>>

\* Run: bus.CreatePidFile fails; the deferred ln.Close runs (it unlinks the endpoint)
RunCreatePidFileFails(i) ==
    /\ proc[i].pc = "create"
    /\ fs' = [fs EXCEPT !.sock = 0]
    /\ proc' = [proc EXCEPT ![i].pc = "returned", ![i].err = "pidfile_failed",
                            ![i].ln = "closed"]
    /\ UNCHANGED <<pl, daemon, cfgStore, conn, reload, call>>

\* Run: configMgr.StartWatching, signal.Notify, the two goroutines are spawned
RunWatch(i) ==
    /\ proc[i].pc = "watch"
    /\ proc' = [proc EXCEPT ![i].pc = "accept"]
    /\ UNCHANGED <<pl, daemon, cfgStore, conn, reload, fs, call>>

\* Run, first goroutine: a termination signal arrives, d.cancel()
Signal(i) ==
    /\ proc[i].pc \in {"accept", "wait"}
    /\ ~proc[i].cancelled
    /\ proc' = [proc EXCEPT ![i].cancelled = TRUE]
    /\ UNCHANGED <<pl, daemon, cfgStore, conn, reload, fs, call>>

\* Run, second goroutine: <-d.ctx.Done(), ln.Close()
CloseOnCancel(i) ==
    /\ proc[i].cancelled
    /\ proc[i].ln = "open"
    /\ fs' = [fs EXCEPT !.sock = 0]
    /\ proc' = [proc EXCEPT ![i].ln = "closed"]
    /\ UNCHANGED <<pl, daemon, cfgStore, conn, reload, call>>

\* a Run that does not defer bus.RemovePidFile
RunDeferred_KeepPidFile(i, e) ==
    /\ fs' = [fs EXCEPT !.sock = IF proc[i].ln = "open" THEN 0 ELSE @]
    /\ proc' = [proc EXCEPT ![i].pc = "returned", ![i].err = e, ![i].ln = "closed"]

\* the deferred calls of Run after the lockfile was created:
\* configMgr.Stop, bus.RemovePidFile, ln.Close
RunDeferred(i, e) ==
    /\ fs' = [fs EXCEPT !.pid = remove(@),
                        !.sock = IF proc[i].ln = "open" THEN 0 ELSE @]
    /\ proc' = [proc EXCEPT ![i].pc = "returned", ![i].err = e, ![i].ln = "closed"]

\* Run: ln.Accept fails after the root context was cancelled
AcceptFailsCancelled(i) ==
    /\ proc[i].pc = "accept"
    /\ proc[i].cancelled
    /\ proc[i].ln = "closed"
    /\ proc' = [proc EXCEPT ![i].pc = "wait"]
    /\ UNCHANGED <<pl, daemon, cfgStore, conn, reload, fs, call>>

\* Run: ln.Accept fails while the root context is not cancelled
AcceptFails(i) ==
    /\ proc[i].pc = "accept"
    /\ ~proc[i].cancelled
    /\ RunDeferred(i, "accept_failed")
    /\ UNCHANGED <<pl, daemon, cfgStore, conn, reload, call>>

\* Run: d.wg.Wait() returns, return nil
RunWait(i) ==
    /\ proc[i].pc = "wait"
    /\ i = Self => \A c \in Conns : conn[c].pc \in {"free", "closed"}
    /\ RunDeferred(i, "")
    /\ UNCHANGED <<pl, daemon, cfgStore, conn, reload, call>>

---------------------------------------------------------------------------
(* cmd/hyprvoice/main.go *)

\* main: _ = rootCmd.Execute(). The error that RunE returned is printed by Execute
\* and dropped by main, which returns: the exit status of the process is 0.
main(err) == 0

\* serve: the RunE of serveCmd has returned what d.Run() returned, the process exits
MainExit(i) ==
    /\ proc[i].pc = "returned"
    /\ proc' = [proc EXCEPT ![i].pc = "exited", ![i].exit = main(proc[i].err)]
    /\ UNCHANGED <<pl, daemon, cfgStore, conn, reload, fs, call>>

---------------------------------------------------------------------------
(* internal/daemon/daemon.go: the command handlers *)

FreeConn ==
    [pc |-> "free", line |-> <<>>, st |-> Unset, w |-> "", p |-> NoPipeline,
     resp |-> <<>>]

\* status(): Idle when the daemon holds no pipeline, else the pipeline's Status()
status == IF daemon.pipeline = NoPipeline THEN Idle ELSE pl[daemon.pipeline].status

\* a toggle that takes the store's snapshot as it is
getConfig_NoOverride == cfgStore

\* getConfigWithModeOverride: the store's snapshot, or a copy with the mode replaced
getConfigWithModeOverride ==
    IF daemon.modeOverride # ""
    THEN [cfgStore EXCEPT !.mode = daemon.modeOverride]
    ELSE cfgStore

\* fmt.Fprint(c, ...), then the deferred d.wg.Done() and c.Close(); the handler's
\* local variables are gone
Respond(C, line) == [FreeConn EXCEPT !.resp = Append(C.resp, line), !.pc = "closed"]

\* the reply that ends the handling of a toggle or a cancel
Reply(C) == IF C.line[1] = "t" THEN "OK toggled\n" ELSE "OK cancelled\n"

\* the handlers that have not returned
InFlight == {c \in Conns : conn[c].pc \notin {"free", "closed"}}

\* bufio.Reader.ReadString('\n') on the bytes the client has written before it
\* stopped writing: the bytes up to and including the first newline, or all of them
\* (with an error) when there is no newline
RECURSIVE ReadString(_)
ReadString(data) ==
    IF data = <<>> THEN <<>>
    ELSE IF Head(data) = "\n" THEN <<"\n">>
    ELSE <<Head(data)>> \o ReadString(Tail(data))

\* ReadString returned an error: what it returned does not end with the delimiter
readErr(line) == IF line = <<>> THEN TRUE ELSE line[Len(line)] # "\n"

\* Run: ln.Accept returns a connection; d.wg.Add(1); go d.handle(c), which reads
\* what the client has written.
Accept(c, line) ==
    /\ proc[Self].pc = "accept"
    /\ proc[Self].ln = "open"
    /\ conn[c].pc = "free"
    /\ \A c2 \in 1..(c - 1) : conn[c2].pc # "free"
    /\ conn' = [conn EXCEPT ![c] = [FreeConn EXCEPT !.pc = "accepted", !.line = ReadString(line)]]
    /\ UNCHANGED <<pl, daemon, cfgStore, reload, proc, fs, call>>

\* the errors a read of the connection ends with
ReadErrors == {"EOF", "read: connection reset by peer"}

\* handle: ReadString fails, the error is reported to the client
HandleReadError(c, e) ==
    /\ conn[c].pc = "accepted"
    /\ readErr(conn[c].line)
    /\ conn' = [conn EXCEPT ![c] = Respond(@, "ERR read_error: " \o e \o "\n")]
    /\ UNCHANGED <<pl, daemon, cfgStore, reload, proc, fs, call>>

\* handle: len(line) == 0 after a read without error. ReadString returns no error
\* only with a line that ends with the delimiter, so the branch is never taken.
HandleEmpty(c) ==
    /\ conn[c].pc = "accepted"
    /\ ~readErr(conn[c].line)
    /\ Len(conn[c].line) = 0
    /\ conn' = [conn EXCEPT ![c] = Respond(@, "ERR empty\n")]
    /\ UNCHANGED <<pl, daemon, cfgStore, reload, proc, fs, call>>

\* handle, case 's': the status is read and reported
HandleStatus(c) ==
    /\ conn[c].pc = "accepted"
    /\ ~readErr(conn[c].line)
    /\ conn[c].line[1] = "s"
    /\ conn' = [conn EXCEPT ![c] = Respond(@, "STATUS status=" \o status \o "\n")]
    /\ UNCHANGED <<pl, daemon, cfgStore, reload, proc, fs, call>>

\* handle, case 't': toggle() reads the status once and picks its branch
HandleToggle(c) ==
    /\ conn[c].pc = "accepted"
    /\ ~readErr(conn[c].line)
    /\ conn[c].line[1] = "t"
    /\ LET st == status
           C  == [conn[c] EXCEPT !.st = st]
       IN conn' = [conn EXCEPT ![c] =
             CASE st = Idle -> [C EXCEPT !.pc = "t_create"]
               [] st \in {Recording, Injecting} -> [C EXCEPT !.pc = "stop_lock"]
               [] st = Transcribing -> [C EXCEPT !.pc = "inj_lock"]
               [] OTHER -> Respond(C, Reply(C))]
    /\ UNCHANGED <<pl, daemon, cfgStore, reload, proc, fs, call>>

\* toggle, case Idle: configuration with the override, active window, pipeline.New,
\* SetWindowAddress, p.Run(d.ctx)
ToggleCreate(c, w) ==
    /\ conn[c].pc = "t_create"
    /\ LET P == New(getConfigWithModeOverride)
           Q == IF w # "" THEN SetWindowAddress(P, w) ELSE P
       IN pl' = Append(pl, PipelineRun(Q))
    /\ conn' = [conn EXCEPT ![c].w = w, ![c].p = Len(pl) + 1, ![c].pc = "t_store"]
    /\ UNCHANGED <<daemon, cfgStore, reload, proc, fs, call>>

\* toggle, case Idle: d.pipeline = p under the lock, the error monitor is spawned
ToggleStore(c) ==
    /\ conn[c].pc = "t_store"
    /\ daemon' = [daemon EXCEPT !.pipeline = conn[c].p]
    /\ pl' = [pl EXCEPT ![conn[c].p].monitors = @ + 1]
    /\ conn' = [conn EXCEPT ![c] = Respond(@, Reply(@))]
    /\ UNCHANGED <<cfgStore, reload, proc, fs, call>>

\* a stopPipeline that leaves the reference in place
StopLock_KeepRef(c) ==
    /\ conn[c].pc = "stop_lock"
    /\ conn' = [conn EXCEPT ![c] =
                  IF daemon.pipeline = NoPipeline
                  THEN Respond(@, Reply(@))
                  ELSE [@ EXCEPT !.p = daemon.pipeline, !.pc = "stop_cancel"]]
    /\ UNCHANGED <<pl, daemon, cfgStore, reload, proc, fs, call>>

\* stopPipeline, under the lock: p := d.pipeline; d.pipeline = nil
StopLock(c) ==
    /\ conn[c].pc = "stop_lock"
    /\ daemon' = [daemon EXCEPT !.pipeline = NoPipeline]
    /\ conn' = [conn EXCEPT ![c] =
                  IF daemon.pipeline = NoPipeline
                  THEN Respond(@, Reply(@))
                  ELSE [@ EXCEPT !.p = daemon.pipeline, !.pc = "stop_cancel"]]
    /\ UNCHANGED <<pl, cfgStore, reload, proc, fs, call>>

\* stopPipeline: p.Stop() cancels the session context once
StopCancel(c) ==
    /\ conn[c].pc = "stop_cancel"
    /\ pl' = [pl EXCEPT ![conn[c].p] = PipelineStop(@)]
    /\ conn' = [conn EXCEPT ![c].pc = "stop_wait"]
    /\ UNCHANGED <<daemon, cfgStore, reload, proc, fs, call>>

\* stopPipeline: p.Stop() returns from p.wg.Wait(); the reply is written
StopWait(c) ==
    /\ conn[c].pc = "stop_wait"
    /\ WaitDone(pl[conn[c].p])
    /\ conn' = [conn EXCEPT ![c] = Respond(@, Reply(@))]
    /\ UNCHANGED <<pl, daemon, cfgStore, reload, proc, fs, call>>

\* toggle, case Transcribing, under the read lock: actionChan := d.pipeline.GetActionCh()
InjectLock(c) ==
    /\ conn[c].pc = "inj_lock"
    /\ conn' = [conn EXCEPT ![c] =
                  IF daemon.pipeline = NoPipeline
                  THEN Respond(@, Reply(@))
                  ELSE [@ EXCEPT !.p = daemon.pipeline, !.pc = "inj_send"]]
    /\ UNCHANGED <<pl, daemon, cfgStore, reload, proc, fs, call>>

\* the send actionChan <- pipeline.Inject can proceed: the mailbox has room
CanSend(P) == Len(P.actionCh) < ActionCap

\* toggle, case Transcribing: actionChan <- pipeline.Inject; the reply is written
InjectSend(c) ==
    /\ conn[c].pc = "inj_send"
    /\ CanSend(pl[conn[c].p])
    /\ pl' = [pl EXCEPT ![conn[c].p].actionCh = Append(@, Inject),
                        ![conn[c].p].early = @ \/ pl[conn[c].p].status = Recording]
    /\ conn' = [conn EXCEPT ![c] = Respond(@, Reply(@))]
    /\ UNCHANGED <<daemon, cfgStore, reload, proc, fs, call>>

\* handle, case 'c': cancelPipeline() reads the status once
HandleCancel(c) ==
    /\ conn[c].pc = "accepted"
    /\ ~readErr(conn[c].line)
    /\ conn[c].line[1] = "c"
    /\ LET st == status
           C  == [conn[c] EXCEPT !.st = st]
       IN conn' = [conn EXCEPT ![c] =
             IF st = Idle THEN Respond(C, Reply(C)) ELSE [C EXCEPT !.pc = "stop_lock"]]
    /\ UNCHANGED <<pl, daemon, cfgStore, reload, proc, fs, call>>

\* strings.TrimSpace and its two halves, on a line given as its characters
SpaceChars == {" ", "\t", "\n", "\r"}

RECURSIVE TrimLeft(_)
TrimLeft(s) == IF s # <<>> /\ Head(s) \in SpaceChars THEN TrimLeft(Tail(s)) ELSE s

RECURSIVE TrimRight(_)
TrimRight(s) ==
    IF s # <<>> /\ s[Len(s)] \in SpaceChars THEN TrimRight(SubSeq(s, 1, Len(s) - 1)) ELSE s

TrimSpace(s) == TrimRight(TrimLeft(s))

\* strings.HasPrefix, strings.TrimPrefix
HasPrefix(s, pre) == Len(s) >= Len(pre) /\ SubSeq(s, 1, Len(pre)) = pre

TrimPrefix(s, pre) == IF HasPrefix(s, pre) THEN SubSeq(s, Len(pre) + 1, Len(s)) ELSE s

\* the characters written by the verb %s
RECURSIVE Str(_)
Str(s) == IF s = <<>> THEN "" ELSE Head(s) \o Str(Tail(s))

\* the verb %q applied to a byte: a quoted character literal
Quote(ch) ==
    "'" \o (CASE ch = "\n" -> "\\n" [] ch = "\t" -> "\\t" [] ch = "'" -> "\\'"
              [] OTHER -> ch) \o "'"

\* the commands handle knows
Commands == {"t", "c", "s", "v", "m", "q"}

\* getEffectiveMode: the override when one is set, else the snapshot's mode
getEffectiveMode_Snapshot == cfgStore.mode

getEffectiveMode == IF daemon.modeOverride # "" THEN daemon.modeOverride ELSE cfgStore.mode

\* handle, case 'm': modeArg := strings.TrimSpace(line[1:])
modeArg(C) == TrimSpace(Tail(C.line))

\* handle, case 'm': newMode := strings.TrimPrefix(modeArg, ":")
newMode(C) == Str(TrimPrefix(modeArg(C), <<":">>))

\* handle, case 'm' without an argument: the effective mode is reported
HandleGetMode(c) ==
    /\ conn[c].pc = "accepted"
    /\ ~readErr(conn[c].line)
    /\ conn[c].line[1] = "m"
    /\ modeArg(conn[c]) = <<>>
    /\ conn' = [conn EXCEPT ![c] = Respond(@, "MODE mode=" \o getEffectiveMode \o "\n")]
    /\ UNCHANGED <<pl, daemon, cfgStore, reload, proc, fs, call>>

\* a handler that stores whatever mode it is given
HandleInvalidMode_Stores(c) ==
    /\ conn[c].pc = "accepted"
    /\ ~readErr(conn[c].line)
    /\ conn[c].line[1] = "m"
    /\ HasPrefix(modeArg(conn[c]), <<":">>)
    /\ newMode(conn[c]) \notin Modes
    /\ daemon' = [daemon EXCEPT !.modeOverride = newMode(conn[c])]
    /\ conn' = [conn EXCEPT ![c] =
                  Respond(@, "ERR invalid_mode=" \o newMode(conn[c]) \o "\n")]
    /\ UNCHANGED <<pl, cfgStore, reload, proc, fs, call>>

\* handle, case 'm' with an argument ":x", x neither raw nor llm
HandleInvalidMode(c) ==
    /\ conn[c].pc = "accepted"
    /\ ~readErr(conn[c].line)
    /\ conn[c].line[1] = "m"
    /\ HasPrefix(modeArg(conn[c]), <<":">>)
    /\ newMode(conn[c]) \notin Modes
    /\ conn' = [conn EXCEPT ![c] =
                  Respond(@, "ERR invalid_mode=" \o newMode(conn[c]) \o "\n")]
    /\ UNCHANGED <<pl, daemon, cfgStore, reload, proc, fs, call>>

\* handle, case 'm' with an argument ":raw" or ":llm": setModeOverride
HandleSetMode(c) ==
    /\ conn[c].pc = "accepted"
    /\ ~readErr(conn[c].line)
    /\ conn[c].line[1] = "m"
    /\ HasPrefix(modeArg(conn[c]), <<":">>)
    /\ newMode(conn[c]) \in Modes
    /\ daemon' = [daemon EXCEPT !.modeOverride = newMode(conn[c])]
    /\ conn' = [conn EXCEPT ![c] = Respond(@, "OK mode=" \o newMode(conn[c]) \o "\n")]
    /\ UNCHANGED <<pl, cfgStore, reload, proc, fs, call>>

\* handle, case 'm' with an argument that does not begin with ":"
HandleInvalidModeCommand(c) ==
    /\ conn[c].pc = "accepted"
    /\ ~readErr(conn[c].line)
    /\ conn[c].line[1] = "m"
    /\ modeArg(conn[c]) # <<>>
    /\ ~HasPrefix(modeArg(conn[c]), <<":">>)
    /\ conn' = [conn EXCEPT ![c] = Respond(@, "ERR invalid_mode_command\n")]
    /\ UNCHANGED <<pl, daemon, cfgStore, reload, proc, fs, call>>

\* handle, default case: the first character is no command
HandleUnknown(c) ==
    /\ conn[c].pc = "accepted"
    /\ ~readErr(conn[c].line)
    /\ conn[c].line[1] \notin Commands
    /\ conn' = [conn EXCEPT ![c] =
                  Respond(@, "ERR unknown=" \o Quote(conn[c].line[1]) \o "\n")]
    /\ UNCHANGED <<pl, daemon, cfgStore, reload, proc, fs, call>>

\* handle, case 'q': fmt.Fprint(c, "OK quitting\n")
HandleQuit(c) ==
    /\ conn[c].pc = "accepted"
    /\ ~readErr(conn[c].line)
    /\ conn[c].line[1] = "q"
    /\ conn' = [conn EXCEPT ![c] = [Respond(@, "OK quitting\n") EXCEPT !.pc = "q_cancel"]]
    /\ UNCHANGED <<pl, daemon, cfgStore, reload, proc, fs, call>>

\* handle, case 'q': d.cancel(), then the deferred d.wg.Done() and c.Close()
QuitCancel(c) ==
    /\ conn[c].pc = "q_cancel"
    /\ proc' = [proc EXCEPT ![Self].cancelled = TRUE]
    /\ conn' = [conn EXCEPT ![c].pc = "closed"]
    /\ UNCHANGED <<pl, daemon, cfgStore, reload, fs, call>>

\* a monitor that returns when its session has gone back to Idle
MonitorRecv_UntilIdle(p) ==
    /\ pl[p].monitors > 0
    /\ ~proc[Self].cancelled
    /\ pl[p].status # Idle
    /\ Len(pl[p].errorCh) > 0
    /\ pl' = [pl EXCEPT ![p].errorCh = Tail(@)]
    /\ UNCHANGED <<daemon, cfgStore, conn, reload, proc, fs, call>>

\* monitorPipelineErrors: an error is received and passed to the notifier
MonitorRecv(p) ==
    /\ pl[p].monitors > 0
    /\ ~proc[Self].cancelled
    /\ Len(pl[p].errorCh) > 0
    /\ pl' = [pl EXCEPT ![p].errorCh = Tail(@)]
    /\ UNCHANGED <<daemon, cfgStore, conn, reload, proc, fs, call>>

---------------------------------------------------------------------------
(* internal/daemon/daemon.go: onConfigReload, called by the configuration watcher *)

NotifyTypes == {"log", "none"}

\* the identity under which the reload callback holds d.mu; a handler holds it
\* under the number of its connection
ReloadTask == MaxCommands + 1

\* the watcher replaces the snapshot, then calls the reload callback
ConfigReload(m, nt) ==
    /\ proc[Self].pc = "accept"
    /\ reload.pc = "idle"
    /\ reload.n < MaxReloads
    /\ cfgStore' = [ver |-> cfgStore.ver + 1, mode |-> m, notify |-> nt]
    /\ reload' = [reload EXCEPT !.pc = "stop_lock", !.n = @ + 1]
    /\ UNCHANGED <<pl, daemon, conn, proc, fs, call>>

\* onConfigReload: stopPipeline, under the lock
ReloadStopLock ==
    /\ reload.pc = "stop_lock"
    /\ daemon' = [daemon EXCEPT !.pipeline = NoPipeline]
    /\ reload' = [reload EXCEPT !.p = daemon.pipeline,
                                !.pc = IF daemon.pipeline = NoPipeline
                                       THEN "swap" ELSE "stop_cancel"]
    /\ UNCHANGED <<pl, cfgStore, conn, proc, fs, call>>

\* onConfigReload: stopPipeline, p.Stop() cancels the session context
ReloadStopCancel ==
    /\ reload.pc = "stop_cancel"
    /\ pl' = [pl EXCEPT ![reload.p] = PipelineStop(@)]
    /\ reload' = [reload EXCEPT !.pc = "stop_wait"]
    /\ UNCHANGED <<daemon, cfgStore, conn, proc, fs, call>>

\* onConfigReload: stopPipeline, p.Stop() returns from p.wg.Wait()
ReloadStopWait ==
    /\ reload.pc = "stop_wait"
    /\ WaitDone(pl[reload.p])
    /\ reload' = [reload EXCEPT !.pc = "swap"]
    /\ UNCHANGED <<pl, daemon, cfgStore, conn, proc, fs, call>>

\* onConfigReload: d.notifier.Notify("Config Reloaded"), then the notifier is replaced
\* under the lock; via is history: the notifier the notification went through
ReloadSwap ==
    /\ reload.pc = "swap"
    /\ daemon' = [daemon EXCEPT !.notifier = cfgStore.notify]
    /\ reload' = [reload EXCEPT !.pc = "idle", !.p = NoPipeline, !.via = daemon.notifier]
    /\ UNCHANGED <<pl, cfgStore, conn, proc, fs, call>>

\* onConfigReload, lines 65 to 67: d.notifier.Notify("Config Reloaded") with the
\* notifier read without the lock, then d.mu.Lock()
ReloadSwapLock ==
    /\ reload.pc = "swap"
    /\ daemon.mu = {}
    /\ daemon' = [daemon EXCEPT !.mu = {<<ReloadTask, "w">>}]
    /\ reload' = [reload EXCEPT !.pc = "locked", !.via = daemon.notifier]
    /\ UNCHANGED <<pl, cfgStore, conn, proc, fs, call>>

\* onConfigReload, lines 68 and 69: the notifier is replaced, then d.mu.Unlock()
ReloadSwapUnlock ==
    /\ reload.pc = "locked"
    /\ daemon' = [daemon EXCEPT !.notifier = cfgStore.notify, !.mu = {}]
    /\ reload' = [reload EXCEPT !.pc = "idle", !.p = NoPipeline]
    /\ UNCHANGED <<pl, cfgStore, conn, proc, fs, call>>

---------------------------------------------------------------------------
(* The specifications *)

InitProc == [pc |-> "off", ln |-> "none", cancelled |-> FALSE, err |-> "",
             seen |-> 0, created |-> FALSE, exit |-> -1]

InitCommon ==
    /\ pl = <<>>
    /\ daemon = [pipeline |-> NoPipeline, modeOverride |-> "", notifier |-> "log",
                 mu |-> {}]
    /\ cfgStore = [ver |-> 0, mode |-> "raw", notify |-> "log"]
    /\ conn = [c \in 1..MaxCommands |-> FreeConn]
    /\ reload = [pc |-> "idle", p |-> NoPipeline, n |-> 0, via |-> ""]
    /\ proc = [i \in Procs |-> InitProc]
    /\ call = NoCall

\* one daemon, started in an empty cache directory
Init ==
    /\ InitCommon
    /\ fs = [pid |-> AbsentFile, sock |-> 0, alive |-> {}]

\* the request lines the clients send
Requests == {<<"t", "\n">>, <<"c", "\n">>, <<"m", ":", "l", "l", "m", "\n">>}

Startup(i) ==
    \/ RunStart(i)
    \/ RunCheckExisting(i)
    \/ RunListen(i)
    \/ RunListenFails(i)
    \/ RunCreatePidFile(i)
    \/ RunCreatePidFileFails(i)
    \/ RunWatch(i)

Shutdown(i) ==
    \/ Signal(i)
    \/ CloseOnCancel(i)
    \/ AcceptFailsCancelled(i)
    \/ AcceptFails(i)
    \/ RunWait(i)

Worker(p) ==
    \/ WorkerStart(p)
    \/ WorkerRecorderFails(p)
    \/ WorkerNewTranscriberFails(p)
    \/ WorkerTranscribing(p)
    \/ WorkerTranscriberStartFails(p)
    \/ WorkerLoop(p)
    \/ WorkerAction(p)
    \/ WorkerCtxDone(p)
    \/ WorkerStopTranscriberFails(p)
    \/ WorkerFinalTextFails(p)
    \/ \E text \in Texts : WorkerFinalText(p, text)
    \/ \E ok \in BOOLEAN : WorkerInject(p, ok)
    \/ WorkerExit(p)
    \/ WorkerDone(p)

Handler(c) ==
    \/ HandleToggle(c)
    \/ \E w \in Windows : ToggleCreate(c, w)
    \/ ToggleStore(c)
    \/ StopLock(c)
    \/ StopCancel(c)
    \/ StopWait(c)
    \/ InjectLock(c)
    \/ InjectSend(c)
    \/ HandleCancel(c)
    \/ HandleSetMode(c)

Reload ==
    \/ \E m \in Modes, nt \in NotifyTypes : ConfigReload(m, nt)
    \/ ReloadStopLock
    \/ ReloadStopCancel
    \/ ReloadStopWait
    \/ ReloadSwap

\* One daemon whose clients send their commands one after another: a connection is
\* made when the handler of the previous one has returned.
Next ==
    \/ Startup(Self)
    \/ \E c \in Conns, line \in Requests : InFlight = {} /\ Accept(c, line)
    \/ \E c \in Conns : Handler(c)
    \/ \E p \in Pipelines : Worker(p)
    \/ \E p \in Pipelines : Deadline(p)

Spec == Init /\ [][Next]_vars

\* One daemon whose clients send nothing but toggles, one after another
ToggleHandler(c) ==
    \/ HandleToggle(c)
    \/ \E w \in Windows : ToggleCreate(c, w)
    \/ ToggleStore(c)
    \/ StopLock(c)
    \/ StopCancel(c)
    \/ StopWait(c)
    \/ InjectLock(c)
    \/ InjectSend(c)

ToggleNext ==
    \/ Startup(Self)
    \/ \E c \in 1..MaxToggles : InFlight = {} /\ Accept(c, <<"t", "\n">>)
    \/ \E c \in Conns : ToggleHandler(c)
    \/ \E p \in Pipelines : Worker(p)
    \/ \E p \in Pipelines : Deadline(p)

\* The scheduler runs every worker that can take a step, and the timer of a live
\* session context fires.
Fairness ==
    \A p \in 1..MaxToggles :
        /\ WF_vars(p \in Pipelines /\ Worker(p))
        /\ WF_vars(p \in Pipelines /\ Deadline(p))

FairSpec == Init /\ [][ToggleNext]_vars /\ Fairness

\* The same daemon and clients, the recording deadline passing in any state of a session
TimerNext ==
    \/ ToggleNext
    \/ \E p \in Pipelines : DeadlineOutsideLoop(p)

TimerSpec == Init /\ [][TimerNext]_vars

\* One daemon whose clients send toggles one after another, with the frames of each
\* session's recorder
FrameNext ==
    \/ Startup(Self)
    \/ \E c \in 1..MaxToggles : InFlight = {} /\ Accept(c, <<"t", "\n">>)
    \/ \E c \in Conns : ToggleHandler(c)
    \/ \E p \in Pipelines : Worker(p)
    \/ \E p \in Pipelines : RecorderEmit(p)
    \/ \E p \in Pipelines : TranscriberRecv(p)
    \/ \E p \in Pipelines : WorkerFrame(p)

FrameSpec == Init /\ [][FrameNext]_vars

\* One daemon and one session, started by a toggle, whose recorder and transcriber
\* report errors on their error streams at any time, with the error monitor draining
\* the mailbox at any time
MailboxNext ==
    \/ Startup(Self)
    \/ InFlight = {} /\ pl = <<>> /\ Accept(1, <<"t", "\n">>)
    \/ \E c \in Conns : ToggleHandler(c)
    \/ \E p \in Pipelines : Worker(p)
    \/ \E p \in Pipelines : ForwardTranscriberError(p)
    \/ \E p \in Pipelines : ForwardRecorderError(p)
    \/ \E p \in Pipelines : MonitorRecv(p)

MailboxSpec == Init /\ [][MailboxNext]_vars

\* One daemon with the lock d.mu of the reload callback made visible: the callback
\* holds it from ReloadSwapLock to ReloadSwapUnlock, and the steps of the handlers that
\* take d.mu wait for it; the workers, the error forwarders and the error monitor take
\* no lock. The clients send toggles one after another.
\* d.mu.Lock() can return: nobody holds the lock
CanLock == daemon.mu = {}

\* d.mu.RLock() can return: no writer holds the lock
CanRLock == \A h \in daemon.mu : h[2] = "r"

\* the task t holds d.mu, for reading or for writing
Holds(t) == \E h \in daemon.mu : h[1] = t

\* stopPipeline, line 82: d.mu.Lock()
StopAcquire(c) ==
    /\ conn[c].pc = "stop_lock"
    /\ CanLock
    /\ daemon' = [daemon EXCEPT !.mu = {<<c, "w">>}]
    /\ conn' = [conn EXCEPT ![c].pc = "stop_held"]
    /\ UNCHANGED <<pl, cfgStore, reload, proc, fs, call>>

\* a stopPipeline that keeps the lock while it stops the session
StopSection_KeepsLock(c) ==
    /\ conn[c].pc = "stop_held"
    /\ daemon' = [daemon EXCEPT !.pipeline = NoPipeline]
    /\ conn' = [conn EXCEPT ![c] =
                  IF daemon.pipeline = NoPipeline
                  THEN Respond(@, Reply(@))
                  ELSE [@ EXCEPT !.p = daemon.pipeline, !.pc = "stop_cancel"]]
    /\ UNCHANGED <<pl, cfgStore, reload, proc, fs, call>>

\* stopPipeline, lines 83 to 85: p := d.pipeline; d.pipeline = nil; d.mu.Unlock()
StopSection(c) ==
    /\ conn[c].pc = "stop_held"
    /\ daemon' = [daemon EXCEPT !.pipeline = NoPipeline, !.mu = {}]
    /\ conn' = [conn EXCEPT ![c] =
                  IF daemon.pipeline = NoPipeline
                  THEN Respond(@, Reply(@))
                  ELSE [@ EXCEPT !.p = daemon.pipeline, !.pc = "stop_cancel"]]
    /\ UNCHANGED <<pl, cfgStore, reload, proc, fs, call>>

\* toggle, case Transcribing, line 238: d.mu.RLock()
InjectAcquire(c) ==
    /\ conn[c].pc = "inj_lock"
    /\ CanRLock
    /\ daemon' = [daemon EXCEPT !.mu = @ \cup {<<c, "r">>}]
    /\ conn' = [conn EXCEPT ![c].pc = "inj_held"]
    /\ UNCHANGED <<pl, cfgStore, reload, proc, fs, call>>

\* toggle, case Transcribing, lines 239 to 246: actionChan := d.pipeline.GetActionCh()
\* and d.mu.RUnlock(), on both branches before anything else
InjectSection(c) ==
    /\ conn[c].pc = "inj_held"
    /\ daemon' = [daemon EXCEPT !.mu = @ \ {<<c, "r">>}]
    /\ conn' = [conn EXCEPT ![c] =
                  IF daemon.pipeline = NoPipeline
                  THEN Respond(@, Reply(@))
                  ELSE [@ EXCEPT !.p = daemon.pipeline, !.pc = "inj_send"]]
    /\ UNCHANGED <<pl, cfgStore, reload, proc, fs, call>>

\* toggle, case Idle, line 226: d.mu.Lock() after p.Run(d.ctx) has returned
StoreAcquire(c) ==
    /\ conn[c].pc = "t_store"
    /\ CanLock
    /\ daemon' = [daemon EXCEPT !.mu = {<<c, "w">>}]
    /\ conn' = [conn EXCEPT ![c].pc = "t_held"]
    /\ UNCHANGED <<pl, cfgStore, reload, proc, fs, call>>

\* toggle, case Idle, lines 227 to 231: d.pipeline = p; d.mu.Unlock(); the
\* notification and the error monitor are spawned as tasks of their own
StoreSection(c) ==
    /\ conn[c].pc = "t_held"
    /\ daemon' = [daemon EXCEPT !.pipeline = conn[c].p, !.mu = {}]
    /\ pl' = [pl EXCEPT ![conn[c].p].monitors = @ + 1]
    /\ conn' = [conn EXCEPT ![c] = Respond(@, Reply(@))]
    /\ UNCHANGED <<cfgStore, reload, proc, fs, call>>

\* onConfigReload, stopPipeline, line 82: d.mu.Lock()
ReloadStopAcquire ==
    /\ reload.pc = "stop_lock"
    /\ CanLock
    /\ daemon' = [daemon EXCEPT !.mu = {<<ReloadTask, "w">>}]
    /\ reload' = [reload EXCEPT !.pc = "stop_held"]
    /\ UNCHANGED <<pl, cfgStore, conn, proc, fs, call>>

\* onConfigReload, stopPipeline, lines 83 to 85
ReloadStopSection ==
    /\ reload.pc = "stop_held"
    /\ daemon' = [daemon EXCEPT !.pipeline = NoPipeline, !.mu = {}]
    /\ reload' = [reload EXCEPT !.p = daemon.pipeline,
                                !.pc = IF daemon.pipeline = NoPipeline
                                       THEN "swap" ELSE "stop_cancel"]
    /\ UNCHANGED <<pl, cfgStore, conn, proc, fs, call>>

\* the handlers with every acquisition of d.mu a step of its own; d.status() and
\* getConfigWithModeOverride() take and release the read lock within their step
LockHandler(c) ==
    \/ CanRLock /\ HandleToggle(c)
    \/ CanRLock /\ ToggleCreate(c, "0xw1")
    \/ StoreAcquire(c)
    \/ StoreSection(c)
    \/ StopAcquire(c)
    \/ StopSection(c)
    \/ StopCancel(c)
    \/ StopWait(c)
    \/ InjectAcquire(c)
    \/ InjectSection(c)
    \/ InjectSend(c)

\* the worker with one failure, of the recorder, and one transcription
LockWorker(p) ==
    \/ WorkerStart(p)
    \/ WorkerRecorderFails(p)
    \/ WorkerTranscribing(p)
    \/ WorkerLoop(p)
    \/ WorkerAction(p)
    \/ WorkerCtxDone(p)
    \/ WorkerFinalText(p, "hello")
    \/ WorkerInject(p, TRUE)
    \/ WorkerExit(p)
    \/ WorkerDone(p)

LockNext ==
    \/ Startup(Self)
    \/ \E c \in 1..MaxToggles : InFlight = {} /\ Accept(c, <<"t", "\n">>)
    \/ \E c \in Conns : LockHandler(c)
    \/ \E p \in Pipelines : LockWorker(p)
    \/ \E p \in Pipelines : MonitorRecv(p)
    \/ \E nt \in NotifyTypes : ConfigReload("raw", nt)
    \/ ReloadStopAcquire
    \/ ReloadStopSection
    \/ ReloadStopCancel
    \/ ReloadStopWait
    \/ ReloadSwapLock
    \/ ReloadSwapUnlock

LockSpec == Init /\ [][LockNext]_vars

\* One daemon whose clients send toggles one after another, the recorder of each session
\* closing its frame stream at any time with every frame taken, the recording deadline
\* passing during the supervision loop
StreamNext ==
    \/ Startup(Self)
    \/ \E c \in 1..MaxToggles : InFlight = {} /\ Accept(c, <<"t", "\n">>)
    \/ \E c \in Conns : ToggleHandler(c)
    \/ \E p \in Pipelines : LockWorker(p)
    \/ \E p \in Pipelines : RecorderClose(p)
    \/ \E p \in Pipelines : WorkerFrameEnd(p)
    \/ \E p \in Pipelines : Deadline(p)

StreamSpec == Init /\ [][StreamNext]_vars

\* One daemon whose clients send toggles one after another, each session's transcriber
\* reporting errors on its stream at any time, also after the session has ended; a
\* session may run into its deadline, and a signal cancels the root context at any time
MaxLateErrors == 1

MonitorNext ==
    \/ Startup(Self)
    \/ Signal(Self)
    \/ \E c \in 1..MaxToggles : InFlight = {} /\ Accept(c, <<"t", "\n">>)
    \/ \E c \in Conns : ToggleHandler(c)
    \/ \E p \in Pipelines : LockWorker(p)
    \/ \E p \in Pipelines : Deadline(p)
    \/ \E p \in Pipelines : pl[p].tErrs < MaxLateErrors /\ ForwardTranscriberError(p)
    \/ \E p \in Pipelines : MonitorRecv(p)

\* The scheduler runs every goroutine that can take a step: the handler that is about
\* to store its session and spawn the monitor, and each monitor with an error to receive.
MonitorFairness ==
    /\ \A c \in 1..MaxToggles : WF_vars(ToggleStore(c))
    /\ \A p \in 1..MaxToggles : WF_vars(p \in Pipelines /\ MonitorRecv(p))

MonitorSpec == Init /\ [][MonitorNext]_vars /\ MonitorFairness

\* One daemon that is asked to quit, by a signal or by the command q, while its
\* clients send toggles one after another; the recording timeout is long enough
\* for no session timer to fire
QuitHandler(c) ==
    \/ ToggleHandler(c)
    \/ HandleQuit(c)
    \/ QuitCancel(c)

QuitNext ==
    \/ Startup(Self)
    \/ Shutdown(Self)
    \/ \E c \in 1..MaxToggles : InFlight = {} /\ Accept(c, <<"t", "\n">>)
    \/ \E c \in Conns : InFlight = {} /\ Accept(c, <<"q", "\n">>)
    \/ \E c \in Conns : QuitHandler(c)
    \/ \E p \in Pipelines : Worker(p)

\* The scheduler runs every worker that can take a step.
WorkerFairness == \A p \in 1..MaxToggles : WF_vars(p \in Pipelines /\ Worker(p))

QuitWorkerSpec == Init /\ [][QuitNext]_vars /\ WorkerFairness

\* One daemon whose clients connect at any time: the handlers run concurrently.
RaceRequests == {<<"t", "\n">>, <<"c", "\n">>}

\* the devices work, the window and the dictated text are fixed
RaceWorker(p) ==
    \/ WorkerStart(p)
    \/ WorkerTranscribing(p)
    \/ WorkerLoop(p)
    \/ WorkerAction(p)
    \/ WorkerCtxDone(p)
    \/ WorkerFinalText(p, "hello")
    \/ WorkerInject(p, TRUE)
    \/ WorkerExit(p)
    \/ WorkerDone(p)

RaceHandler(c) ==
    \/ HandleToggle(c)
    \/ ToggleCreate(c, "0xw1")
    \/ ToggleStore(c)
    \/ StopLock(c)
    \/ StopCancel(c)
    \/ StopWait(c)
    \/ InjectLock(c)
    \/ InjectSend(c)
    \/ HandleCancel(c)

RaceNext ==
    \/ Startup(Self)
    \/ \E c \in Conns, line \in RaceRequests : Accept(c, line)
    \/ \E c \in Conns : RaceHandler(c)
    \/ \E p \in Pipelines : RaceWorker(p)
    \/ \E p \in Pipelines : Deadline(p)

RaceSpec == Init /\ [][RaceNext]_vars

RaceFairness ==
    /\ \A p \in 1..MaxCommands : WF_vars(p \in Pipelines /\ RaceWorker(p))
    /\ \A p \in 1..MaxCommands : WF_vars(p \in Pipelines /\ Deadline(p))
    /\ \A c \in 1..MaxCommands : WF_vars(RaceHandler(c))

RaceFairSpec == RaceSpec /\ RaceFairness

\* One daemon whose clients connect at any time and send toggles, and one more
\* client that may send q: the handlers run concurrently.
QuitRaceInit ==
    /\ pl = <<>>
    /\ daemon = [pipeline |-> NoPipeline, modeOverride |-> "", notifier |-> "log",
                 mu |-> {}]
    /\ cfgStore = [ver |-> 0, mode |-> "raw", notify |-> "log"]
    /\ conn = [c \in 1..(MaxCommands + 1) |-> FreeConn]
    /\ reload = [pc |-> "idle", p |-> NoPipeline, n |-> 0, via |-> ""]
    /\ proc = [i \in Procs |-> InitProc]
    /\ call = NoCall
    /\ fs = [pid |-> AbsentFile, sock |-> 0, alive |-> {}]

QuitRaceHandler(c) ==
    \/ HandleToggle(c)
    \/ ToggleCreate(c, "0xw1")
    \/ ToggleStore(c)
    \/ StopLock(c)
    \/ StopCancel(c)
    \/ StopWait(c)
    \/ InjectLock(c)
    \/ InjectSend(c)
    \/ HandleQuit(c)
    \/ QuitCancel(c)

\* Run after the root context was cancelled: the listener is closed, Accept fails,
\* d.wg.Wait() returns
RunShutdown == CloseOnCancel(Self) \/ AcceptFailsCancelled(Self) \/ RunWait(Self)

QuitRaceNext ==
    \/ Startup(Self)
    \/ AcceptFails(Self)
    \/ RunShutdown
    \/ \E c \in 1..MaxCommands : Accept(c, <<"t", "\n">>)
    \/ \E c \in Conns : Accept(c, <<"q", "\n">>)
    \/ \E c \in Conns : QuitRaceHandler(c)
    \/ \E p \in Pipelines : RaceWorker(p)

\* The scheduler runs every goroutine that can take a step: the workers, the
\* handlers, and Run with its listener-closing goroutine.
QuitRaceFairness ==
    /\ \A p \in 1..MaxCommands : WF_vars(p \in Pipelines /\ RaceWorker(p))
    /\ \A c \in 1..(MaxCommands + 1) : WF_vars(QuitRaceHandler(c))
    /\ WF_vars(RunShutdown)

QuitRaceSpec == QuitRaceInit /\ [][QuitRaceNext]_vars /\ QuitRaceFairness

\* One daemon whose clients send toggles and cancels one after another, while the
\* configuration watcher reloads the configuration at any time
ReloadNext ==
    \/ Startup(Self)
    \/ \E c \in 1..MaxToggles, line \in RaceRequests : InFlight = {} /\ Accept(c, line)
    \/ \E c \in Conns : RaceHandler(c)
    \/ \E p \in Pipelines : RaceWorker(p)
    \/ \E p \in Pipelines : Deadline(p)
    \/ Reload

ReloadSpec == Init /\ [][ReloadNext]_vars

\* One daemon whose clients query and set the processing mode and toggle, one
\* after another, while the configuration file is rewritten at any time
ModeChars == [raw |-> <<"r", "a", "w">>, llm |-> <<"l", "l", "m">>]

SetMode(v) == <<"m", ":">> \o ModeChars[v] \o <<"\n">>

ModeRequests == {<<"t", "\n">>, <<"m", "\n">>} \cup {SetMode(v) : v \in Modes}

ModeHandler(c) ==
    \/ HandleToggle(c)
    \/ ToggleCreate(c, "0xw1")
    \/ ToggleStore(c)
    \/ StopLock(c)
    \/ StopCancel(c)
    \/ StopWait(c)
    \/ InjectLock(c)
    \/ InjectSend(c)
    \/ HandleGetMode(c)
    \/ HandleSetMode(c)

\* the file is rewritten with either mode, the notification type stays
ModeReload ==
    \/ \E m \in Modes : ConfigReload(m, "log")
    \/ ReloadStopLock
    \/ ReloadStopCancel
    \/ ReloadStopWait
    \/ ReloadSwap

ModeNext ==
    \/ Startup(Self)
    \/ \E c \in Conns, line \in ModeRequests : InFlight = {} /\ Accept(c, line)
    \/ \E c \in Conns : ModeHandler(c)
    \/ \E p \in Pipelines : RaceWorker(p)
    \/ ModeReload

ModeSpec == Init /\ [][ModeNext]_vars

\* One daemon whose clients send well-formed and malformed lines one after another;
\* some clients stop writing before they have sent a newline
BadRequests ==
    {<<"x", "\n">>, <<"\n">>, <<"m", "x", "\n">>,
     <<"m", ":", "f", "a", "s", "t", "\n">>, <<"m", ":", " ", "r", "a", "w", "\n">>}

ParseRequests ==
    BadRequests \cup {<<"t", "\n">>, <<"s", "\n">>, SetMode("llm"), <<>>, <<"t">>}

ParseHandler(c) ==
    \/ ModeHandler(c)
    \/ HandleInvalidMode(c)
    \/ HandleInvalidModeCommand(c)
    \/ HandleUnknown(c)
    \/ \E e \in ReadErrors : HandleReadError(c, e)
    \/ HandleStatus(c)

ParseNext ==
    \/ Startup(Self)
    \/ \E c \in Conns, line \in ParseRequests : InFlight = {} /\ Accept(c, line)
    \/ \E c \in Conns : ParseHandler(c)
    \/ \E p \in Pipelines : RaceWorker(p)

ParseSpec == Init /\ [][ParseNext]_vars

\* One pipeline and a caller of its interface: New, then Run and Stop at any time
MaxRuns == 2

CallNew ==
    /\ pl = <<>>
    /\ pl' = <<New(cfgStore)>>
    /\ UNCHANGED <<daemon, cfgStore, conn, reload, proc, fs, call>>

CallRun(p) ==
    /\ pl[p].started < MaxRuns
    /\ pl' = [pl EXCEPT ![p] = PipelineRun(@)]
    /\ UNCHANGED <<daemon, cfgStore, conn, reload, proc, fs, call>>

\* Stop up to the wait: stopOnce.Do(cancel)
CallStop(p) ==
    /\ pl' = [pl EXCEPT ![p] = PipelineStop(@)]
    /\ UNCHANGED <<daemon, cfgStore, conn, reload, proc, fs, call>>

\* the caller hands in an Inject when the mailbox has room
CallInject(p) ==
    /\ CanSend(pl[p])
    /\ pl' = [pl EXCEPT ![p].actionCh = Append(@, Inject)]
    /\ UNCHANGED <<daemon, cfgStore, conn, reload, proc, fs, call>>

PipeNext ==
    \/ CallNew
    \/ \E p \in Pipelines : CallRun(p)
    \/ \E p \in Pipelines : CallStop(p)
    \/ \E p \in Pipelines : CallInject(p)
    \/ \E p \in Pipelines : Worker(p)
    \/ \E p \in Pipelines : WorkerDeferred(p)
    \/ \E p \in Pipelines : Deadline(p)

PipeSpec == Init /\ [][PipeNext]_vars

\* The lockfiles a crashed daemon or another program may have left behind
PidChars == {"7", "x", "-"}

MaxStaleLen == 2

StaleData == UNION {[1..k -> PidChars] : k \in 0..MaxStaleLen}

StalePids == {Atoi(d).val : d \in {e \in StaleData : Atoi(e).ok}}

StaleFiles ==
    {AbsentFile}
      \cup {[exists |-> TRUE, data |-> d, readable |-> TRUE] : d \in StaleData}
      \cup {[exists |-> TRUE, data |-> <<"7">>, readable |-> FALSE]}

\* Two daemons started against one cache directory, in any state a previous run left it
BootInit ==
    /\ InitCommon
    /\ \E f \in StaleFiles, a \in SUBSET StalePids :
          fs = [pid |-> f, sock |-> 0, alive |-> a]

BootNext == \E i \in Procs : Startup(i) \/ Shutdown(i)

BootSpec == BootInit /\ [][BootNext]_vars

\* The same two daemons, as processes that exit
ExitNext ==
    \/ BootNext
    \/ \E i \in Procs : MainExit(i)

ExitSpec == BootInit /\ [][ExitNext]_vars

---------------------------------------------------------------------------
(* internal/injection: the injector *)

\* the backends the injector can build
BackendNames == {"ydotool", "wtype", "clipboard"}

\* the names a configuration file may list: the three backends and a name that is none
ConfigNames == BackendNames \cup {"xdotool"}

\* the longest backend list drawn
MaxBackends == 3

RECURSIVE SeqsUpTo(_, _)
SeqsUpTo(S, n) ==
    IF n = 0 THEN {<<>>}
    ELSE LET shorter == SeqsUpTo(S, n - 1)
         IN  shorter \cup {Append(s, x) : s \in {t \in shorter : Len(t) = n - 1}, x \in S}

\* injection.Config, timeouts in seconds
InjectionConfigs ==
    {[Backends |-> b, YdotoolTimeout |-> 5, WtypeTimeout |-> 4, ClipboardTimeout |-> 3] :
        b \in SeqsUpTo(ConfigNames, MaxBackends)}

\* a NewInjector that keeps an empty chain when no listed name is a backend
NewInjector_NoDefault(config) ==
    [config |-> config,
     backends |-> SelectSeq(config.Backends, LAMBDA name : name \in BackendNames)]

\* NewInjector: the chain holds the listed names that are backends, in the listed order;
\* a name that is none is skipped, and a chain left empty becomes clipboard alone
NewInjector(config) ==
    LET backends == SelectSeq(config.Backends, LAMBDA name : name \in BackendNames)
    IN  [config |-> config,
         backends |-> IF Len(backends) = 0 THEN <<"clipboard">> ELSE backends]

\* injector.getTimeout
getTimeout(i, backendName) ==
    CASE backendName = "ydotool" -> i.config.YdotoolTimeout
      [] backendName = "wtype" -> i.config.WtypeTimeout
      [] backendName = "clipboard" -> i.config.ClipboardTimeout
      [] OTHER -> 5

\* Backend.Inject: the error of the k-th backend of the chain, nil when it succeeds
BackendInject(i, k, fails) ==
    IF k \in fails THEN <<i.backends[k] \o " failed">> ELSE <<>>

\* an Inject loop that goes on to the next backend after a success
RECURSIVE InjectLoop_NoReturn(_, _, _, _, _)
InjectLoop_NoReturn(i, k, fails, tried, lastErr) ==
    IF k > Len(i.backends)
    THEN [tried |-> tried,
          err |-> IF lastErr = <<>> THEN <<>>
                  ELSE <<"all injection backends failed, last error: ">> \o lastErr]
    ELSE LET timeout == getTimeout(i, i.backends[k])
             err == BackendInject(i, k, fails)
             now == Append(tried, [name |-> i.backends[k], timeout |-> timeout])
         IN  InjectLoop_NoReturn(i, k + 1, fails, now, err)

\* injector.Inject, the loop from the k-th backend on: the backends tried with the
\* timeout each was given, and the error returned
RECURSIVE InjectLoop(_, _, _, _, _)
InjectLoop(i, k, fails, tried, lastErr) ==
    IF k > Len(i.backends)
    THEN [tried |-> tried,
          err |-> <<"all injection backends failed, last error: ">> \o lastErr]
    ELSE LET timeout == getTimeout(i, i.backends[k])
             err == BackendInject(i, k, fails)
             now == Append(tried, [name |-> i.backends[k], timeout |-> timeout])
         IN  IF err = <<>> THEN [tried |-> now, err |-> <<>>]
             ELSE InjectLoop(i, k + 1, fails, now, err)

\* injector.Inject
injector_Inject(i, text, fails) ==
    IF text = "" THEN [tried |-> <<>>, err |-> <<"cannot inject empty text">>]
    ELSE InjectLoop(i, 1, fails, <<>>, <<>>)

\* the calls of Inject drawn: a configuration, a text, and the places of the chain
\* whose backend fails
InjectCalls ==
    {[fn |-> "Inject", config |-> cfg, text |-> text, fails |-> fails,
      done |-> FALSE, tried |-> <<>>, err |-> <<>>] :
        cfg \in InjectionConfigs, text \in {"", "hello"}, fails \in SUBSET (1..MaxBackends)}

\* NewInjector(config).Inject(ctx, text, windowAddress)
InjectorInject ==
    /\ call.fn = "Inject"
    /\ ~call.done
    /\ LET r == injector_Inject(NewInjector(call.config), call.text, call.fails)
       IN  call' = [call EXCEPT !.done = TRUE, !.tried = r.tried, !.err = r.err]
    /\ UNCHANGED <<pl, daemon, cfgStore, conn, reload, proc, fs>>

---------------------------------------------------------------------------
(* internal/bus: the lockfile manager called on a cache directory *)

\* os.MkdirAll of the lockfile's directory: the directory exists afterwards
MkdirAll(dir) == TRUE

\* the cache directories a pidManager may find: no directory, a directory without a
\* lockfile, a directory with a lockfile; and the calls made on them: create and then
\* remove, or remove alone
PidCalls ==
    {[fn |-> "pid", dir |-> d.dir, pid |-> d.pid, before |-> d, todo |-> ops, ops |-> <<>>,
      err |-> <<>>] :
        d \in {[dir |-> FALSE, pid |-> AbsentFile]}
                 \cup {[dir |-> TRUE, pid |-> f] : f \in StaleFiles},
        ops \in {<<"create", "remove">>, <<"remove">>}}

\* pidManager.create
PidCreate ==
    /\ call.fn = "pid"
    /\ call.todo # <<>> /\ Head(call.todo) = "create"
    /\ call' = [call EXCEPT !.dir = MkdirAll(@), !.pid = create(Self),
                            !.todo = Tail(@), !.ops = Append(@, "create"), !.err = <<>>]
    /\ UNCHANGED <<pl, daemon, cfgStore, conn, reload, proc, fs>>

\* pidManager.remove
PidRemove ==
    /\ call.fn = "pid"
    /\ call.todo # <<>> /\ Head(call.todo) = "remove"
    /\ call' = [call EXCEPT !.pid = remove(@),
                            !.todo = Tail(@), !.ops = Append(@, "remove"), !.err = <<>>]
    /\ UNCHANGED <<pl, daemon, cfgStore, conn, reload, proc, fs>>

---------------------------------------------------------------------------
(* internal/config: Validate *)

\* a configuration Validate accepts, with the environment it is read in: the transcription
\* key is in the file, the language is detected, the LLM key is in the environment
BaseConfig ==
    [Recording_SampleRate |-> 16000, Recording_Channels |-> 1, Recording_Format |-> "s16",
     Recording_BufferSize |-> 8192, Recording_ChannelBufferSize |-> 30,
     Recording_Timeout |-> 300,
     Transcription_Provider |-> "openai", Transcription_APIKey |-> "sk-file",
     Transcription_Language |-> "", Transcription_Model |-> "whisper-1",
     Injection_Backends |-> <<"ydotool", "wtype", "clipboard">>,
     Injection_YdotoolTimeout |-> 5, Injection_WtypeTimeout |-> 5,
     Injection_ClipboardTimeout |-> 3,
     Notifications_Type |-> "desktop",
     Processing_Mode |-> "raw",
     LLM_Provider |-> "openai", LLM_APIKey |-> "", LLM_Model |-> "gpt-4o-mini",
     LLM_Level |-> "moderate", LLM_CustomPrompt |-> "",
     OPENAI_API_KEY |-> "sk-env", GROQ_API_KEY |-> ""]

\* the other values each field and environment variable is given
Alternatives ==
    [Recording_SampleRate |-> {0, -1}, Recording_Channels |-> {0}, Recording_Format |-> {""},
     Recording_BufferSize |-> {0}, Recording_ChannelBufferSize |-> {0},
     Recording_Timeout |-> {0},
     Transcription_Provider |-> {"", "groq-transcription", "groq-translation", "azure"},
     Transcription_APIKey |-> {""},
     Transcription_Language |-> {"zz"},
     Transcription_Model |-> {"", "whisper-large-v3"},
     Injection_Backends |-> {<<>>, <<"wtype", "xdotool">>},
     Injection_YdotoolTimeout |-> {0}, Injection_WtypeTimeout |-> {0},
     Injection_ClipboardTimeout |-> {-1},
     Notifications_Type |-> {"none", "popup"},
     Processing_Mode |-> {"", "llm", "fast"},
     LLM_Provider |-> {"", "anthropic"}, LLM_APIKey |-> {"sk-llm"}, LLM_Model |-> {""},
     LLM_Level |-> {"", "custom", "extreme"},
     LLM_CustomPrompt |-> {"be brief"},
     OPENAI_API_KEY |-> {""}, GROQ_API_KEY |-> {"gsk-env"}]

\* the fields changed at once
MaxAltered == 2

RECURSIVE Altered(_)
Altered(n) ==
    IF n = 0 THEN {BaseConfig}
    ELSE LET prev == Altered(n - 1)
         IN  prev \cup UNION {{[c EXCEPT ![f] = v] : v \in Alternatives[f]} :
                                  c \in prev, f \in DOMAIN Alternatives}

isValidLanguageCode(code) ==
    code \in {"en", "es", "fr", "de", "it", "pt", "ru", "ja", "ko", "zh", "ar", "hi",
              "nl", "sv", "da", "no", "fi", "pl", "tr", "he", "th", "vi", "id", "ms",
              "uk", "cs", "hu", "ro", "bg", "hr", "sk", "sl", "et", "lv", "lt", "mt",
              "cy", "ga", "eu", "ca", "gl", "is", "mk", "sq", "az", "be", "ka", "hy",
              "kk", "ky", "tg", "uz", "mn", "ne", "si", "km", "lo", "my", "fa", "ps",
              "ur", "bn", "ta", "te", "ml", "kn", "gu", "pa", "or", "as", "mr", "sa",
              "sw", "yo", "ig", "ha", "zu", "xh", "af", "am", "mg", "so", "sn", "rw"}

\* Validate, the recording section: the error message, "" when there is none
ValidateRecording(c) ==
    IF c.Recording_SampleRate <= 0 THEN "invalid recording.sample_rate"
    ELSE IF c.Recording_Channels <= 0 THEN "invalid recording.channels"
    ELSE IF c.Recording_BufferSize <= 0 THEN "invalid recording.buffer_size"
    ELSE IF c.Recording_ChannelBufferSize <= 0 THEN "invalid recording.channel_buffer_size"
    ELSE IF c.Recording_Format = "" THEN "invalid recording.format: empty"
    ELSE IF c.Recording_Timeout <= 0 THEN "invalid recording.timeout"
    ELSE ""

\* Validate, the transcription section
ValidateTranscription(c) ==
    LET key(env) == IF c.Transcription_APIKey = "" THEN env ELSE c.Transcription_APIKey
        badLanguage == c.Transcription_Language # ""
                          /\ ~isValidLanguageCode(c.Transcription_Language)
        provider ==
            CASE c.Transcription_Provider = "openai" ->
                    IF key(c.OPENAI_API_KEY) = "" THEN "OpenAI API key required"
                    ELSE IF badLanguage THEN "invalid transcription.language"
                    ELSE ""
              [] c.Transcription_Provider = "groq-transcription" ->
                    IF key(c.GROQ_API_KEY) = "" THEN "Groq API key required"
                    ELSE IF badLanguage THEN "invalid transcription.language"
                    ELSE IF c.Transcription_Model # ""
                              /\ c.Transcription_Model
                                    \notin {"whisper-large-v3", "whisper-large-v3-turbo"}
                    THEN "invalid model for groq-transcription"
                    ELSE ""
              [] c.Transcription_Provider = "groq-translation" ->
                    IF key(c.GROQ_API_KEY) = "" THEN "Groq API key required"
                    ELSE IF badLanguage THEN "invalid transcription.language"
                    ELSE IF c.Transcription_Model # ""
                              /\ c.Transcription_Model # "whisper-large-v3"
                    THEN "invalid model for groq-translation"
                    ELSE ""
              [] OTHER -> "unsupported transcription.provider"
    IN  IF c.Transcription_Provider = "" THEN "invalid transcription.provider: empty"
        ELSE IF provider # "" THEN provider
        ELSE IF c.Transcription_Model = "" THEN "invalid transcription.model: empty"
        ELSE ""

\* a Validate that does not look at the names of the backends
ValidateInjection_AnyName(c) ==
    IF Len(c.Injection_Backends) = 0 THEN "invalid injection.backends: empty"
    ELSE IF c.Injection_YdotoolTimeout <= 0 THEN "invalid injection.ydotool_timeout"
    ELSE IF c.Injection_WtypeTimeout <= 0 THEN "invalid injection.wtype_timeout"
    ELSE IF c.Injection_ClipboardTimeout <= 0 THEN "invalid injection.clipboard_timeout"
    ELSE ""

\* Validate, the injection section
ValidateInjection(c) ==
    LET validBackends == {"ydotool", "wtype", "clipboard"}
    IN  IF Len(c.Injection_Backends) = 0 THEN "invalid injection.backends: empty"
        ELSE IF \E k \in 1..Len(c.Injection_Backends) :
                    c.Injection_Backends[k] \notin validBackends
        THEN "invalid injection.backends: unknown backend"
        ELSE IF c.Injection_YdotoolTimeout <= 0 THEN "invalid injection.ydotool_timeout"
        ELSE IF c.Injection_WtypeTimeout <= 0 THEN "invalid injection.wtype_timeout"
        ELSE IF c.Injection_ClipboardTimeout <= 0 THEN "invalid injection.clipboard_timeout"
        ELSE ""

\* Validate, the notifications section
ValidateNotifications(c) ==
    IF c.Notifications_Type \notin {"desktop", "log", "none"}
    THEN "invalid notifications.type"
    ELSE ""

\* Validate, the processing and LLM sections: the error message and the configuration
\* with the defaults Validate has written into it by then
ValidateProcessing(c) ==
    LET c1 == IF c.Processing_Mode = "" THEN [c EXCEPT !.Processing_Mode = "raw"] ELSE c
        c2 == IF c1.LLM_Provider = "" THEN [c1 EXCEPT !.LLM_Provider = "openai"] ELSE c1
        c3 == IF c2.LLM_Model = "" THEN [c2 EXCEPT !.LLM_Model = "gpt-4o-mini"] ELSE c2
        c4 == IF c3.LLM_Level = "" THEN [c3 EXCEPT !.LLM_Level = "moderate"] ELSE c3
        apiKey == IF c4.LLM_APIKey = "" THEN c4.OPENAI_API_KEY ELSE c4.LLM_APIKey
    IN  IF c1.Processing_Mode \notin {"raw", "llm"}
        THEN [err |-> "invalid processing.mode", config |-> c1]
        ELSE IF c1.Processing_Mode # "llm" THEN [err |-> "", config |-> c1]
        ELSE IF c2.LLM_Provider # "openai"
        THEN [err |-> "invalid llm.provider", config |-> c2]
        ELSE IF c4.LLM_Level \notin {"minimal", "moderate", "thorough", "custom"}
        THEN [err |-> "invalid llm.level", config |-> c4]
        ELSE IF c4.LLM_Level = "custom" /\ c4.LLM_CustomPrompt = ""
        THEN [err |-> "llm.custom_prompt is required when llm.level is 'custom'",
              config |-> c4]
        ELSE IF apiKey = ""
        THEN [err |-> "LLM API key required when processing.mode is 'llm'", config |-> c4]
        ELSE [err |-> "", config |-> c4]

\* Config.Validate
Validate(c) ==
    IF ValidateRecording(c) # "" THEN [err |-> ValidateRecording(c), config |-> c]
    ELSE IF ValidateTranscription(c) # ""
    THEN [err |-> ValidateTranscription(c), config |-> c]
    ELSE IF ValidateInjection(c) # "" THEN [err |-> ValidateInjection(c), config |-> c]
    ELSE IF ValidateNotifications(c) # ""
    THEN [err |-> ValidateNotifications(c), config |-> c]
    ELSE ValidateProcessing(c)

\* the calls of Validate drawn
ValidateCalls ==
    {[fn |-> "Validate", given |-> c, config |-> c, err |-> "", done |-> FALSE] :
        c \in Altered(MaxAltered)}

\* cfg.Validate()
CallValidate ==
    /\ call.fn = "Validate"
    /\ ~call.done
    /\ LET r == Validate(call.config)
       IN  call' = [call EXCEPT !.done = TRUE, !.config = r.config, !.err = r.err]
    /\ UNCHANGED <<pl, daemon, cfgStore, conn, reload, proc, fs>>

---------------------------------------------------------------------------
(* internal/config: Load *)

\* the [injection] tables of the configuration files drawn: the backends array (empty
\* when the key is missing), the legacy mode key ("" when missing), the ydotool timeout
\* (0 when missing)
InjectionTables ==
    [backends : SeqsUpTo(ConfigNames, MaxBackends),
     mode : {"", "clipboard", "type", "fallback", "paste"},
     ydotool_timeout : {0, 7}]

\* toml.DecodeFile into Config: the injection section
DecodeFile(file) ==
    [Injection_Backends |-> file.backends, Injection_YdotoolTimeout |-> file.ydotool_timeout]

\* Config.migrateInjectionMode
migrateInjectionMode(c, mode) ==
    LET backends == CASE mode = "clipboard" -> <<"clipboard">>
                      [] mode = "type" -> <<"wtype">>
                      [] mode = "fallback" -> <<"wtype", "clipboard">>
                      [] OTHER -> <<"ydotool", "wtype", "clipboard">>
    IN  [c EXCEPT !.Injection_Backends = backends,
                  !.Injection_YdotoolTimeout = IF @ = 0 THEN 5 ELSE @]

\* a Load that migrates the legacy mode whenever the file has one
Load_LegacyFirst(file) ==
    LET config == DecodeFile(file)
    IN  IF Len(config.Injection_Backends) = 0 \/ file.mode # ""
        THEN migrateInjectionMode(config, file.mode)
        ELSE config

\* Load, of a file that exists and parses
Load(file) ==
    LET config == DecodeFile(file)
    IN  IF Len(config.Injection_Backends) = 0
        THEN migrateInjectionMode(config, file.mode)
        ELSE config

\* the calls of Load drawn
LoadCalls ==
    {[fn |-> "Load", file |-> file, config |-> <<>>, done |-> FALSE] :
        file \in InjectionTables}

\* config.Load()
CallLoad ==
    /\ call.fn = "Load"
    /\ ~call.done
    /\ call' = [call EXCEPT !.done = TRUE, !.config = Load(call.file)]
    /\ UNCHANGED <<pl, daemon, cfgStore, conn, reload, proc, fs>>

---------------------------------------------------------------------------
(* cmd/hyprvoice/main.go and internal/bus: the client subcommands *)

\* what the daemon writes on the connection before it closes it
Replies ==
    {<<"O", "K", "\n">>, <<"E", "R", "R", "\n">>, <<"O", "K", "\n", "x", "\n">>,
     <<"O", "K">>, <<>>}

\* the subcommands of the client and their arguments
ClientCommands ==
    {<<sub, <<>>>> : sub \in {"toggle", "cancel", "status", "stop", "version", "mode"}}
        \cup {<<"mode", <<m>>>> : m \in {"raw", "llm", "fast"}}

\* no connection was opened, nothing was sent, nothing is printed
NoExchange == [conns |-> 0, sent |-> <<>>, resp |-> <<>>, err |-> ""]

\* Dial, c.Write(line), bufio.NewReader(c).ReadString, c.Close
Exchange(line, up, reply) ==
    IF ~up THEN [NoExchange EXCEPT !.err = "failed to connect to daemon"]
    ELSE LET resp == ReadString(reply)
         IN  IF readErr(resp)
             THEN [conns |-> 1, sent |-> line, resp |-> <<>>,
                   err |-> "failed to read response"]
             ELSE [conns |-> 1, sent |-> line, resp |-> resp, err |-> ""]

\* bus.SendCommand
SendCommand(cmd, up, reply) == Exchange(<<cmd, "\n">>, up, reply)

\* bus.SendModeCommand
SendModeCommand(mode, up, reply) ==
    Exchange(IF mode = "" THEN <<"m", "\n">> ELSE SetMode(mode), up, reply)

\* versionCmd: prints the version built into the client
versionCmd(up, reply) == [NoExchange EXCEPT !.resp = <<"hyprvoice dev\n">>]

\* modeCmd
modeCmd(args, up, reply) ==
    IF Len(args) = 0 THEN SendModeCommand("", up, reply)
    ELSE IF args[1] # "raw" /\ args[1] # "llm"
    THEN [NoExchange EXCEPT !.err = "invalid mode"]
    ELSE SendModeCommand(args[1], up, reply)

\* the RunE of the subcommand: the exchange made, resp being what fmt.Print prints
RunE(sub, args, up, reply) ==
    CASE sub = "toggle" -> SendCommand("t", up, reply)
      [] sub = "status" -> SendCommand("s", up, reply)
      [] sub = "stop" -> SendCommand("q", up, reply)
      [] sub = "cancel" -> SendCommand("c", up, reply)
      [] sub = "version" -> versionCmd(up, reply)
      [] sub = "mode" -> modeCmd(args, up, reply)

\* the runs of the client drawn: a subcommand, whether a daemon listens, and its reply
ClientCalls ==
    {[fn |-> "client", sub |-> cmd[1], args |-> cmd[2], up |-> up, reply |-> reply,
      done |-> FALSE, conns |-> 0, sent |-> <<>>, out |-> <<>>, err |-> ""] :
        cmd \in ClientCommands, up \in BOOLEAN, reply \in Replies}

\* rootCmd.Execute() of a client subcommand
CallClient ==
    /\ call.fn = "client"
    /\ ~call.done
    /\ LET r == RunE(call.sub, call.args, call.up, call.reply)
       IN  call' = [call EXCEPT !.done = TRUE, !.conns = r.conns, !.sent = r.sent,
                               !.out = r.resp, !.err = r.err]
    /\ UNCHANGED <<pl, daemon, cfgStore, conn, reload, proc, fs>>

---------------------------------------------------------------------------
(* The library functions, each called on its own *)

Calls == InjectCalls \cup PidCalls \cup ValidateCalls \cup LoadCalls
             \cup ClientCalls

\* no daemon runs; one call is made, on any of the arguments drawn
CallInit ==
    /\ pl = <<>>
    /\ daemon = [pipeline |-> NoPipeline, modeOverride |-> "", notifier |-> "log",
                 mu |-> {}]
    /\ cfgStore = [ver |-> 0, mode |-> "raw", notify |-> "log"]
    /\ conn = [c \in 1..MaxCommands |-> FreeConn]
    /\ reload = [pc |-> "idle", p |-> NoPipeline, n |-> 0, via |-> ""]
    /\ proc = [i \in Procs |-> InitProc]
    /\ fs = [pid |-> AbsentFile, sock |-> 0, alive |-> {}]
    /\ call \in Calls

CallNext ==
    \/ InjectorInject
    \/ PidCreate
    \/ PidRemove
    \/ CallValidate
    \/ CallLoad
    \/ CallClient

CallSpec == CallInit /\ [][CallNext]_vars

---------------------------------------------------------------------------
(* Session state, one pipeline at a time *)

\* C1: within one pipeline session the state variable changes only along
\* Idle->Recording, Recording->Transcribing, Transcribing->Injecting, or from a
\* non-Idle state to Idle, and a session whose worker has finished is in Idle.
C1_StateChanges ==
    [][\A p \in Pipelines :
          /\ pl'[p].status # pl[p].status =>
                \/ <<pl[p].status, pl'[p].status>> \in
                      { <<Idle, Recording>>, <<Recording, Transcribing>>,
                        <<Transcribing, Injecting>> }
                \/ pl[p].status \in {Recording, Transcribing, Injecting}
                      /\ pl'[p].status = Idle
          /\ pl'[p].wpc = "done" => pl'[p].status = Idle]_vars

\* C2: at most one pipeline whose session worker is still running exists at any time.
C2_OneSession == Cardinality({p \in Pipelines : pl[p].workers > 0}) <= 1

\* C3: every session that was started eventually returns to Idle with its worker
\* finished, under fair scheduling; no further command is needed for that.
C3_EventuallyIdle ==
    \A p \in 1..MaxToggles :
        (p \in Pipelines /\ pl[p].running)
            ~> (p \in Pipelines /\ pl[p].status = Idle /\ pl[p].wpc = "done")

\* a session was ended by the recording deadline alone
C3_EndedByDeadline ==
    \E p \in Pipelines :
        /\ pl[p].ctx = "deadline" /\ ~pl[p].stopOnce
        /\ pl[p].wpc = "done" /\ pl[p].status = Idle
        /\ pl[p].injected = <<>>

\* C4: every handler of an accepted connection eventually writes one response line
\* and closes the connection.
C4_HandlerResponds ==
    \A c \in 1..MaxCommands :
        (conn[c].pc = "accepted") ~> (conn[c].pc = "closed" /\ Len(conn[c].resp) = 1)

---------------------------------------------------------------------------
(* Startup and shutdown of the daemon process *)

\* the lockfile holds the pid of daemon process i
Owns(i) == fs.pid.exists /\ fs.pid.data = Itoa(Pid(i))

\* C5: of two daemon processes started against one cache directory at most one has
\* a bound listener and a lockfile; the other never rebinds the endpoint.
C5_OneDaemon == Cardinality({i \in Procs : proc[i].ln = "open"}) <= 1

Checked(i) == proc[i].pc = "check" /\ proc'[i].pc # "check"

Clear(i) == proc'[i].err = "" /\ proc'[i].pc = "listen"

AlreadyRunning(i, pid) ==
    proc'[i].err = "already_running" /\ proc'[i].seen = pid /\ proc'[i].pc = "returned"

---------------------------------------------------------------------------
(* Toggles *)

\* the state a status request reports changes
Reported(s, t) == status = s /\ status' = t

\* no collaborator of the active session has failed, its context is live
Happy ==
    /\ daemon'.pipeline # NoPipeline
    /\ pl'[daemon'.pipeline].ctx = "live"
    /\ pl'[daemon'.pipeline].errorCh = <<>>

\* C8: on the happy path the reported state progresses Idle, Recording, Transcribing,
\* Injecting, Idle, and when it is back at Idle the injector was invoked exactly once,
\* with the final text and the window captured at session start.
C8_HappyPath ==
    [][status' # status /\ Happy =>
          /\ \/ Reported(Idle, Recording)
             \/ Reported(Recording, Transcribing)
             \/ Reported(Transcribing, Injecting)
             \/ Reported(Injecting, Idle)
          /\ Reported(Injecting, Idle) =>
                LET P == pl'[daemon'.pipeline]
                IN P.injected = << <<P.finalText, P.windowAddress>> >>]_vars

\* the step of handler c that leaves the program point pc
Leaves(c, pc) == conn[c].pc = pc /\ conn'[c].pc # pc

\* C9: a toggle that observes Idle creates exactly one pipeline, from the current
\* snapshot with the mode override applied and with the captured window set on it,
\* runs it, stores it as the active pipeline and spawns one error monitor; after the
\* first step of the worker the state is Recording.
C9_ToggleFromIdle ==
    [][/\ \A c \in Conns :
            /\ Leaves(c, "accepted") /\ conn[c].line[1] = "t" /\ status = Idle
                  => conn'[c].pc = "t_create"
            /\ Leaves(c, "t_create") =>
                  /\ conn[c].st = Idle
                  /\ Len(pl') = Len(pl) + 1
                  /\ conn'[c].pc = "t_store" /\ conn'[c].p = Len(pl')
                  /\ LET P == pl'[Len(pl')] IN
                       /\ P.config.ver = cfgStore.ver
                       /\ P.config.notify = cfgStore.notify
                       /\ P.config.mode = IF daemon.modeOverride # ""
                                          THEN daemon.modeOverride ELSE cfgStore.mode
                       /\ P.windowAddress = conn'[c].w
                       /\ P.running /\ P.ctx = "live" /\ P.workers = 1
                       /\ P.monitors = 0
            /\ Leaves(c, "t_store") =>
                  /\ daemon'.pipeline = conn[c].p
                  /\ pl'[conn[c].p].monitors = 1
                  /\ conn'[c].pc = "closed"
       /\ Len(pl') # Len(pl) => \E c \in Conns : Leaves(c, "t_create")
       /\ \A p \in Pipelines :
            /\ pl'[p].monitors # pl[p].monitors => \E c \in Conns : Leaves(c, "t_store")
            /\ pl[p].wpc = "start" /\ pl'[p].wpc # "start"
                  => pl'[p].status = Recording]_vars

\* a session started with the mode override and a captured window is recording
C9_Started ==
    \E p \in Pipelines :
        /\ daemon.pipeline = p /\ pl[p].monitors = 1
        /\ daemon.modeOverride = "llm" /\ cfgStore.mode = "raw"
        /\ pl[p].config.mode = "llm" /\ pl[p].windowAddress = "0xw1"
        /\ pl[p].status = Recording /\ pl[p].wpc = "record"

\* C10: a toggle that observes Recording or Injecting stops the pipeline and sends no
\* Inject action; when it returns the active-pipeline reference is cleared and the
\* stopped pipeline is Idle with its worker finished.
C10_ToggleStops ==
    [][\A c \in Conns :
          conn[c].line = <<"t", "\n">> /\ conn[c].st \in {Recording, Injecting} =>
             /\ conn'[c].pc \notin {"inj_lock", "inj_send"}
             /\ conn[c].pc # "closed" /\ conn'[c].pc = "closed" =>
                   /\ conn[c].p # NoPipeline
                   /\ daemon'.pipeline = NoPipeline
                   /\ pl'[conn[c].p].status = Idle
                   /\ pl'[conn[c].p].workers = 0
                   /\ pl'[conn[c].p].actionCh = <<>>]_vars

\* C11: a toggle that observes Transcribing sends exactly one Inject action to the
\* mailbox of the active pipeline and neither stops nor replaces the pipeline; the
\* worker that receives the action moves from Transcribing to Injecting.
C11_ToggleInjects ==
    [][/\ \A c \in Conns :
            /\ Leaves(c, "accepted") /\ conn[c].line[1] = "t" /\ status = Transcribing
                  => conn'[c].pc = "inj_lock"
            /\ conn'[c].line = <<"t", "\n">> /\ conn'[c].st = Transcribing
                  => conn'[c].pc \in {"inj_lock", "inj_send"}
            /\ Leaves(c, "inj_lock") =>
                  /\ daemon.pipeline # NoPipeline
                  /\ conn'[c].pc = "inj_send" /\ conn'[c].p = daemon.pipeline
                  /\ pl' = pl /\ daemon' = daemon
            /\ Leaves(c, "inj_send") =>
                  /\ conn[c].p = daemon.pipeline /\ daemon' = daemon
                  /\ pl'[conn[c].p].actionCh = Append(pl[conn[c].p].actionCh, Inject)
                  /\ pl'[conn[c].p].stopOnce = pl[conn[c].p].stopOnce
                  /\ pl'[conn[c].p].ctx = pl[conn[c].p].ctx
                  /\ Len(pl') = Len(pl)
                  /\ conn'[c].pc = "closed"
       /\ \A p \in Pipelines :
            Len(pl'[p].actionCh) < Len(pl[p].actionCh) =>
               /\ Head(pl[p].actionCh) = Inject
               /\ pl[p].status = Transcribing /\ pl'[p].status = Injecting]_vars

\* C12: an Inject action delivered to a pipeline while its state is not Transcribing
\* is ignored: the delivery changes nothing but the mailbox, and the worker never
\* acts on an action that was delivered while the state was Recording.
C12_InjectIgnored ==
    [][\A p \in Pipelines :
          /\ Len(pl'[p].actionCh) > Len(pl[p].actionCh) /\ pl[p].status # Transcribing
                => pl'[p] = [pl[p] EXCEPT !.actionCh = pl'[p].actionCh,
                                          !.early = pl'[p].early]
          /\ Len(pl'[p].actionCh) < Len(pl[p].actionCh) => ~pl[p].early
          /\ pl[p].early => pl'[p].status # Injecting
          /\ pl[p].early => pl'[p].injected = pl[p].injected]_vars

\* C13: a cancel that finds the daemon idle changes nothing; a cancel that finds a
\* session in a non-Idle state abandons it: once the session is cancelled the injector
\* is not invoked, and when "OK cancelled" is written no session is in a non-Idle state.
C13_Cancel ==
    [][\A c \in Conns : conn[c].line = <<"c", "\n">> =>
          /\ Leaves(c, "accepted") /\ status = Idle
                => /\ conn'[c].resp = <<"OK cancelled\n">> /\ conn'[c].pc = "closed"
                   /\ pl' = pl /\ daemon' = daemon
          /\ Leaves(c, "accepted") /\ status # Idle => conn'[c].pc = "stop_lock"
          /\ conn[c].pc = "stop_wait"
                => pl'[conn[c].p].injected = pl[conn[c].p].injected
          /\ conn[c].pc # "closed" /\ conn'[c].pc = "closed"
                => /\ conn'[c].resp = <<"OK cancelled\n">>
                   /\ \A p \in Pipelines : pl'[p].status = Idle]_vars

\* C14: when the recording deadline of a session is reached, in any state, nothing
\* but the context changes; the worker reacts to an ended context in the same way
\* whether the deadline or a cancel ended it: it leaves its loop with the state and
\* the error mailbox unchanged, and it finishes in Idle.
C14_DeadlineAsCancel ==
    [][\A p \in Pipelines :
          /\ pl[p].ctx = "live" /\ pl'[p].ctx = "deadline"
                => pl'[p] = [pl[p] EXCEPT !.ctx = "deadline"]
          /\ pl[p].ctx \in {"deadline", "cancelled"} =>
                /\ pl[p].wpc = "loop" /\ pl'[p].wpc # "loop"
                      /\ pl'[p].actionCh = pl[p].actionCh
                      => pl'[p] = [pl[p] EXCEPT !.wpc = "exit"]
                /\ pl[p].wpc = "exit" => pl'[p].errorCh = pl[p].errorCh
                /\ pl'[p].wpc = "done" => pl'[p].status = Idle]_vars

\* a session in Transcribing was ended by its deadline, nothing was reported
C14_TimedOut ==
    \E p \in Pipelines :
        /\ pl[p].ctx = "deadline" /\ pl[p].wpc = "done" /\ pl[p].status = Idle
        /\ pl[p].errorCh = <<>> /\ pl[p].actionCh = <<>> /\ daemon.pipeline = p

C16_Quit ==
    /\ [][/\ \A c \in Conns :
               /\ Leaves(c, "accepted") /\ conn[c].line[1] = "q"
                     => /\ conn'[c].resp = <<"OK quitting\n">> /\ conn'[c].pc = "q_cancel"
                        /\ proc' = proc
               /\ Leaves(c, "q_cancel")
                     => proc'[Self].cancelled /\ conn'[c].pc = "closed"
               /\ proc[Self].cancelled /\ proc[Self].ln = "closed"
                     => ~(conn[c].pc = "free" /\ conn'[c].pc # "free")
          /\ proc[Self].pc = "accept" /\ proc'[Self].pc = "returned"
                => ~proc[Self].cancelled /\ proc'[Self].err = "accept_failed"
          /\ proc[Self].pc = "wait" /\ proc'[Self].pc = "returned"
                => /\ proc[Self].cancelled /\ proc'[Self].err = "" /\ InFlight = {}
                   /\ proc'[Self].ln = "closed" /\ fs'.sock = 0 /\ ~fs'.pid.exists]_vars
    /\ (proc[Self].cancelled /\ proc[Self].pc \in {"accept", "wait"})
          ~> (/\ proc[Self].pc = "returned" /\ proc[Self].err = ""
              /\ proc[Self].ln = "closed" /\ ~fs.pid.exists)

---------------------------------------------------------------------------
(* The pipeline interface *)

\* C17: Run is idempotent: a worker is spawned only by a Run on a pipeline that has
\* no worker, so that a pipeline never has more than one worker at a time and Run
\* takes effect only when the previous session is over.
C17_RunIdempotent ==
    [][\A p \in Pipelines :
          pl'[p].started > pl[p].started
              => /\ ~pl[p].running /\ pl[p].workers = 0
                 /\ pl'[p].workers = 1 /\ pl'[p].running]_vars

---------------------------------------------------------------------------
(* stopPipeline *)

\* C18: stopPipeline without an active pipeline changes nothing; with an active
\* pipeline it clears the reference and stops that pipeline, returning when its
\* worker has finished; a second stopPipeline finds no pipeline, so that every
\* pipeline is stopped exactly once.
C18_StopPipeline ==
    [][/\ \A c \in Conns :
            /\ Leaves(c, "stop_lock") /\ daemon.pipeline = NoPipeline
                  => /\ daemon' = daemon /\ pl' = pl /\ conn'[c].pc = "closed"
            /\ Leaves(c, "stop_lock") /\ daemon.pipeline # NoPipeline
                  => /\ daemon'.pipeline = NoPipeline /\ pl' = pl
                     /\ conn'[c].p = daemon.pipeline /\ conn'[c].pc = "stop_cancel"
            /\ Leaves(c, "stop_cancel")
                  => /\ ~pl[conn[c].p].stopOnce /\ pl'[conn[c].p].stopOnce
                     /\ pl'[conn[c].p].ctx # "live"
                     /\ conn'[c].pc = "stop_wait" /\ conn'[c].p = conn[c].p
            /\ Leaves(c, "stop_wait")
                  => /\ pl[conn[c].p].workers = 0 /\ pl[conn[c].p].status = Idle
                     /\ pl' = pl /\ daemon' = daemon
       /\ reload.pc = "stop_lock" /\ reload'.pc # "stop_lock" =>
            /\ daemon'.pipeline = NoPipeline /\ pl' = pl
            /\ reload'.p = daemon.pipeline
            /\ daemon.pipeline = NoPipeline => daemon' = daemon /\ reload'.pc = "swap"
            /\ daemon.pipeline # NoPipeline => reload'.pc = "stop_cancel"
       /\ reload.pc = "stop_cancel" /\ reload'.pc # "stop_cancel" =>
            /\ ~pl[reload.p].stopOnce /\ pl'[reload.p].stopOnce
            /\ pl'[reload.p].ctx # "live" /\ reload'.pc = "stop_wait"
       /\ reload.pc = "stop_wait" /\ reload'.pc # "stop_wait" =>
            /\ pl[reload.p].workers = 0 /\ pl[reload.p].status = Idle
            /\ pl' = pl /\ daemon' = daemon]_vars

\* the one session was stopped by a cancel, and the stopPipeline of a reload that
\* followed found no pipeline
C18_StoppedTwice ==
    /\ Len(pl) = 1 /\ pl[1].stopOnce /\ pl[1].wpc = "done"
    /\ daemon.pipeline = NoPipeline
    /\ reload.pc = "swap" /\ reload.p = NoPipeline
    /\ \E c \in Conns : conn[c].resp = <<"OK cancelled\n">>

---------------------------------------------------------------------------
(* The processing mode *)

\* C19: an accepted m:raw or m:llm is answered "OK mode=<v>" and makes <v> the
\* override; the override changes in no other way; a query m is answered
\* "MODE mode=" with the override when one is set and with the snapshot's mode
\* otherwise; a session is created with the store's snapshot whose mode is replaced
\* by the override; no session changes its configuration after it was created; no
\* command handler modifies the store's snapshot.
C19_ModeOverride ==
    [][/\ \A c \in Conns : Leaves(c, "accepted") =>
            /\ \A v \in Modes : conn[c].line = SetMode(v) =>
                  /\ conn'[c].resp = <<"OK mode=" \o v \o "\n">>
                  /\ daemon'.modeOverride = v
            /\ conn[c].line = <<"m", "\n">> =>
                  /\ daemon' = daemon
                  /\ daemon.modeOverride # ""
                        => conn'[c].resp = <<"MODE mode=" \o daemon.modeOverride \o "\n">>
                  /\ daemon.modeOverride = ""
                        => conn'[c].resp = <<"MODE mode=" \o cfgStore.mode \o "\n">>
       /\ daemon'.modeOverride # daemon.modeOverride =>
            \E c \in Conns : Leaves(c, "accepted") /\ conn[c].line = SetMode(daemon'.modeOverride)
       /\ Len(pl') > Len(pl) =>
            /\ daemon.modeOverride # ""
                  => pl'[Len(pl')].config = [cfgStore EXCEPT !.mode = daemon.modeOverride]
            /\ daemon.modeOverride = "" => pl'[Len(pl')].config = cfgStore
       /\ \A p \in Pipelines : pl'[p].config = pl[p].config
       /\ cfgStore' # cfgStore => conn' = conn /\ daemon' = daemon]_vars

\* the override llm was set while the configuration says raw; a query that came
\* later was answered with llm, and the session created after it runs with llm
C19_Overridden ==
    /\ conn[1].resp = <<"OK mode=llm\n">>
    /\ conn[2].resp = <<"MODE mode=llm\n">>
    /\ conn[3].resp = <<"OK toggled\n">>
    /\ cfgStore.mode = "raw" /\ cfgStore.ver > 0
    /\ daemon.pipeline = 1 /\ pl[1].config.mode = "llm" /\ pl[1].status = Recording

---------------------------------------------------------------------------
(* Malformed commands *)

\* C20: a line whose first character is no command is answered "ERR unknown="
\* with that character quoted, an m: line whose argument is neither raw nor llm is
\* answered "ERR invalid_mode=" with the argument, an m line whose argument does not
\* begin with ":" is answered "ERR invalid_mode_command"; the handler then returns
\* and has changed neither the pipeline reference, nor any pipeline, nor the mode
\* override, nor the root context, nor the listener: the daemon keeps accepting.
C20_Malformed ==
    [][\A c \in Conns : Leaves(c, "accepted") /\ conn[c].line \in BadRequests =>
          /\ conn[c].line = <<"x", "\n">> => conn'[c].resp = <<"ERR unknown='x'\n">>
          /\ conn[c].line = <<"\n">> => conn'[c].resp = <<"ERR unknown='\\n'\n">>
          /\ conn[c].line = <<"m", "x", "\n">>
                => conn'[c].resp = <<"ERR invalid_mode_command\n">>
          /\ conn[c].line = <<"m", ":", "f", "a", "s", "t", "\n">>
                => conn'[c].resp = <<"ERR invalid_mode=fast\n">>
          /\ conn[c].line = <<"m", ":", " ", "r", "a", "w", "\n">>
                => conn'[c].resp = <<"ERR invalid_mode= raw\n">>
          /\ conn'[c].pc = "closed"
          /\ daemon' = daemon /\ pl' = pl /\ cfgStore' = cfgStore /\ proc' = proc
          /\ fs' = fs
          /\ proc[Self].pc = "accept" /\ proc[Self].ln = "open" /\ ~proc[Self].cancelled]_vars

\* two malformed lines were answered, nothing is changed, and the daemon has
\* accepted and served a toggle after them
C20_Survived ==
    /\ conn[1].resp = <<"ERR unknown='x'\n">>
    /\ conn[2].resp = <<"ERR invalid_mode=fast\n">>
    /\ conn[3].resp = <<"OK toggled\n">>
    /\ daemon.modeOverride = ""
    /\ daemon.pipeline = 1 /\ pl[1].status = Recording
    /\ proc[Self].pc = "accept" /\ proc[Self].ln = "open"

---------------------------------------------------------------------------
(* Requests that are empty or cannot be read *)

\* C21: a request line that consists of the newline alone is answered with exactly
\* "ERR empty"; a request that ends before a newline arrives is answered with
\* "ERR read_error: " and the error's text.
C21_EmptyAndUnreadable ==
    [][\A c \in Conns : Leaves(c, "accepted") =>
          /\ conn[c].line = <<"\n">> => conn'[c].resp = <<"ERR empty\n">>
          /\ conn[c].line \in {<<>>, <<"t">>} =>
                \E e \in ReadErrors : conn'[c].resp = <<"ERR read_error: " \o e \o "\n">>]_vars

---------------------------------------------------------------------------
(* The status command *)

\* C22: the command s is answered "STATUS status=idle" when the daemon holds no
\* pipeline, and otherwise "STATUS status=" with the state of the daemon's pipeline,
\* one of idle, recording, transcribing, injecting; the handler changes neither the
\* pipeline reference nor any pipeline.
C22_Status ==
    [][\A c \in Conns : Leaves(c, "accepted") /\ conn[c].line = <<"s", "\n">> =>
          /\ daemon.pipeline = NoPipeline => conn'[c].resp = <<"STATUS status=idle\n">>
          /\ daemon.pipeline # NoPipeline =>
                /\ pl[daemon.pipeline].status \in {Idle, Recording, Transcribing, Injecting}
                /\ conn'[c].resp =
                      <<"STATUS status=" \o pl[daemon.pipeline].status \o "\n">>
          /\ daemon' = daemon /\ pl' = pl]_vars

---------------------------------------------------------------------------
(* Exit codes *)

\* C23: a serve process exits with the code 0 exactly when it ended without an
\* error; a serve that failed to start (a daemon is already running, the listener
\* or the lockfile could not be made) exits with a code other than 0.
C23_ExitCode ==
    \A i \in Procs :
        proc[i].pc = "exited" => (proc[i].exit = 0 <=> proc[i].err = "")

---------------------------------------------------------------------------
(* The injector *)

\* the chain the injector holds: the listed names that are backends, in the listed
\* order, or clipboard alone when the list has none
Chain(backends) ==
    LET known == SelectSeq(backends, LAMBDA n : n \in {"ydotool", "wtype", "clipboard"})
    IN  IF known = <<>> THEN <<"clipboard">> ELSE known

\* what Inject did is what trying `chain` in order does: nothing is tried for an empty
\* text; otherwise the backends tried are the first of the chain, each with its own
\* timeout, every one before the last tried failed, later ones are tried only after a
\* failure, and an error is returned exactly when every backend of the chain failed,
\* wrapping the error of the last one
TriesInOrder(chain) ==
    LET n == Len(call.tried)
        own == [ydotool |-> call.config.YdotoolTimeout, wtype |-> call.config.WtypeTimeout,
                clipboard |-> call.config.ClipboardTimeout]
    IN  IF call.text = ""
        THEN call.tried = <<>> /\ call.err = <<"cannot inject empty text">>
        ELSE /\ n <= Len(chain)
             /\ \A k \in 1..n : /\ call.tried[k].name = chain[k]
                                 /\ call.tried[k].name \in DOMAIN own
                                 /\ call.tried[k].timeout = own[call.tried[k].name]
             /\ \A k \in 1..(n - 1) : k \in call.fails
             /\ n < Len(chain) => n >= 1 /\ n \notin call.fails
             /\ call.err = <<>> <=> \E k \in 1..Len(chain) : k \notin call.fails
             /\ call.err # <<>> =>
                   /\ n = Len(chain)
                   /\ n >= 1
                   /\ call.err = <<"all injection backends failed, last error: ",
                                   chain[n] \o " failed">>

\* C24: Inject rejects an empty text before any backend is tried; for a non-empty text it
\* tries its chain strictly in order, each backend with its own timeout, returns success
\* at the first backend that succeeds without trying a later one, and returns an error
\* wrapping the last backend's error exactly when every backend failed; the chain is the
\* configured names that are backends, in the configured order, or clipboard alone when
\* no configured name is a backend
C24_InjectChain ==
    call.fn = "Inject" /\ call.done => TriesInOrder(Chain(call.config.Backends))

\* C24 as stated: the backends tried are the configured ones
C24_InjectConfigured ==
    call.fn = "Inject" /\ call.done => TriesInOrder(call.config.Backends)

\* a list with a name that is no backend between two backends: the first fails, the
\* second succeeds
C24_Injected ==
    /\ call.fn = "Inject" /\ call.done
    /\ call.config.Backends = <<"wtype", "xdotool", "clipboard">>
    /\ call.text = "hello"
    /\ call.fails = {1}
    /\ Len(call.tried) = 2
    /\ call.err = <<>>

---------------------------------------------------------------------------
(* The frame stream *)

\* C25: every frame that leaves the recorder's frame stream is consumed by the
\* transcriber: the supervision loop never takes a frame away
C25_FramesReachTranscriber ==
    [][\A p \in Pipelines :
          Len(pl'[p].frameCh) < Len(pl[p].frameCh) =>
              pl'[p].heard = Append(pl[p].heard, Head(pl[p].frameCh))]_vars

---------------------------------------------------------------------------
(* The lockfile round trip *)

\* C26: create() and then remove() leave the cache directory and the lockfile exactly
\* as they were before create(), whatever they were; remove() with no lockfile there
\* succeeds and changes nothing
C26_CreateRemoveRoundTrip ==
    call.fn = "pid" /\ call.todo = <<>> =>
        /\ call.ops = <<"create", "remove">> =>
              call.dir = call.before.dir /\ call.pid = call.before.pid
        /\ call.ops = <<"remove">> /\ ~call.before.pid.exists =>
              call.dir = call.before.dir /\ call.pid = call.before.pid /\ call.err = <<>>

---------------------------------------------------------------------------
(* Validation of the configuration *)

\* the conditions validation has to reject, read off the configuration c and the
\* environment it was validated in; a mode or level that is not set is not an unknown one
Rejectable(c) ==
    \/ c.Recording_SampleRate <= 0
    \/ c.Recording_Channels <= 0
    \/ c.Recording_BufferSize <= 0
    \/ c.Recording_ChannelBufferSize <= 0
    \/ c.Recording_Timeout <= 0
    \/ c.Injection_YdotoolTimeout <= 0
    \/ c.Injection_WtypeTimeout <= 0
    \/ c.Injection_ClipboardTimeout <= 0
    \/ c.Transcription_Provider \notin {"openai", "groq-transcription", "groq-translation"}
    \/ c.Transcription_Model = ""
    \/ c.Injection_Backends = <<>>
    \/ \E k \in DOMAIN c.Injection_Backends :
          c.Injection_Backends[k] \notin {"ydotool", "wtype", "clipboard"}
    \/ c.Notifications_Type \notin {"desktop", "log", "none"}
    \/ c.Processing_Mode \notin {"", "raw", "llm"}
    \/ /\ c.Processing_Mode = "llm"
       /\ \/ c.LLM_Level \notin {"", "minimal", "moderate", "thorough", "custom"}
          \/ c.LLM_Level = "custom" /\ c.LLM_CustomPrompt = ""
          \/ c.LLM_APIKey = "" /\ c.OPENAI_API_KEY = ""

\* C27: Validate returns an error for every configuration with a non-positive sample
\* rate, channels, buffer size, channel buffer size or timeout, an empty or unsupported
\* transcription provider, an empty model, an empty backend list, an unknown backend
\* name, an unknown notification type or processing mode, or, in mode llm, an unknown
\* level, a custom level with an empty prompt or no API key in the file or the
\* environment; it returns no error only when none of these holds
C27_ValidateRejects ==
    call.fn = "Validate" /\ call.done /\ Rejectable(call.given) => call.err # ""

\* mode llm with the level custom and no prompt was rejected for the missing prompt
C27_Rejected ==
    /\ call.fn = "Validate" /\ call.done
    /\ call.given = [BaseConfig EXCEPT !.Processing_Mode = "llm", !.LLM_Level = "custom"]
    /\ call.err = "llm.custom_prompt is required when llm.level is 'custom'"

---------------------------------------------------------------------------
(* The backend list of a loaded configuration *)

\* C28: loading resolves the backend list as the backends array of the file when it is
\* not empty; otherwise as the legacy mode maps: clipboard to [clipboard], type to
\* [wtype], fallback to [wtype, clipboard]; otherwise, the mode unknown or missing, as
\* [ydotool, wtype, clipboard]. A legacy mode never alters a backends array that is not
\* empty
C28_BackendList ==
    call.fn = "Load" /\ call.done =>
        call.config.Injection_Backends =
            IF call.file.backends # <<>> THEN call.file.backends
            ELSE IF call.file.mode = "clipboard" THEN <<"clipboard">>
            ELSE IF call.file.mode = "type" THEN <<"wtype">>
            ELSE IF call.file.mode = "fallback" THEN <<"wtype", "clipboard">>
            ELSE <<"ydotool", "wtype", "clipboard">>

\* a file with a backends array and a legacy mode was loaded: the array is kept
C28_Loaded ==
    /\ call.fn = "Load" /\ call.done
    /\ call.file.backends = <<"clipboard", "ydotool">>
    /\ call.file.mode = "type"
    /\ call.config.Injection_Backends = <<"clipboard", "ydotool">>

---------------------------------------------------------------------------
(* The client subcommands *)

\* the request line of a subcommand
CommandLine(sub, args) ==
    CASE sub = "toggle" -> <<"t", "\n">>
      [] sub = "cancel" -> <<"c", "\n">>
      [] sub = "status" -> <<"s", "\n">>
      [] sub = "stop" -> <<"q", "\n">>
      [] sub = "version" -> <<"v", "\n">>
      [] sub = "mode" /\ args = <<>> -> <<"m", "\n">>
      [] sub = "mode" /\ args = <<"raw">> -> <<"m", ":", "r", "a", "w", "\n">>
      [] sub = "mode" /\ args = <<"llm">> -> <<"m", ":", "l", "l", "m", "\n">>
      [] OTHER -> <<>>

\* C29: every subcommand but serve (toggle, cancel, status, stop, version, mode), run
\* against a listening daemon that answers with a line, opens one connection, sends its
\* command as one newline-terminated line, reads exactly one response line and gives
\* that line back verbatim
C29_ClientExchange ==
    /\ call.fn = "client" /\ call.done /\ call.up
    /\ CommandLine(call.sub, call.args) # <<>>
    /\ \E k \in DOMAIN call.reply : call.reply[k] = "\n"
    => /\ call.conns = 1
       /\ call.sent = CommandLine(call.sub, call.args)
       /\ call.err = ""
       /\ Len(call.out) >= 1
       /\ call.out = SubSeq(call.reply, 1, Len(call.out))
       /\ \A k \in DOMAIN call.out : call.out[k] = "\n" <=> k = Len(call.out)

---------------------------------------------------------------------------
(* Failures of the recorder, the transcriber and the injector *)

\* the worker of p goes from one place of run to another
Goes(p, from, to) == pl[p].wpc = from /\ pl'[p].wpc = to

\* the step offers the error msg, and only it, to the error mailbox of p, without
\* calling the injector
Offers(p, msg) ==
    /\ pl'[p].errorCh = Append(pl[p].errorCh, msg)
    /\ pl'[p].injected = pl[p].injected

\* C30: a failure of a collaborator ends the session and not the daemon: when the
\* recorder fails to start, the transcriber fails to be constructed or started, or
\* stopping the transcriber, retrieving the final text or the injector fails during
\* Inject, the worker offers exactly one error for it to the error mailbox, the injector
\* is called at most once in a session, the daemon process goes on, and the worker ends
\* with the state Idle
C30_FailureEndsSession ==
    [][\A p \in Pipelines :
          /\ Goes(p, "record", "exit") =>
                \/ Offers(p, "Failed to start recording")
                \/ Offers(p, "Failed to create transcriber")
          /\ Goes(p, "tstart", "exit") => Offers(p, "Failed to start transcriber")
          /\ Goes(p, "finalize", "exit") =>
                \/ Offers(p, "Failed to stop transcriber during injection")
                \/ Offers(p, "Failed to retrieve transcription")
          /\ Goes(p, "inject", "exit") =>
                /\ Len(pl'[p].injected) = Len(pl[p].injected) + 1
                /\ pl'[p].errorCh \in {pl[p].errorCh,
                                       Append(pl[p].errorCh, "Failed to inject text")}
                /\ pl'[p].finalText = "" => pl'[p].errorCh # pl[p].errorCh
                /\ pl'[p].status = Idle
          /\ pl'[p].wpc # pl[p].wpc => proc' = proc /\ proc[Self].pc # "returned"
          /\ Len(pl'[p].errorCh) <= 1
          /\ Len(pl'[p].injected) <= 1
          /\ pl'[p].wpc = "done" => pl'[p].status = Idle]_vars

\* a session whose injector failed has ended: one error, one call of the injector, Idle
C30_InjectorFailed ==
    \E p \in Pipelines :
        /\ pl[p].wpc = "done"
        /\ pl[p].errorCh = <<"Failed to inject text">>
        /\ Len(pl[p].injected) = 1
        /\ pl[p].finalText # ""
        /\ pl[p].status = Idle
        /\ proc[Self].pc \notin {"off", "returned"}

---------------------------------------------------------------------------
(* The error mailbox *)

\* a forwarder of p hands an error of its stream to sendError in this step
Forwards(p) == pl'[p].tErrs # pl[p].tErrs \/ pl'[p].rErrs # pl[p].rErrs

\* C31: the error mailbox never holds more than 10 errors; an error offered while it
\* holds 10 is dropped and the content of the mailbox stays as it is; an offer never
\* blocks: the forwarder that offers goes on, the mailbox drained or not
C31_MailboxBounded ==
    [][\A p \in Pipelines :
          /\ Len(pl[p].errorCh) <= 10
          /\ Len(pl'[p].errorCh) <= 10
          /\ Forwards(p) /\ Len(pl[p].errorCh) = 10 => pl'[p].errorCh = pl[p].errorCh
          /\ Forwards(p) /\ Len(pl[p].errorCh) < 10 =>
                \E msg \in {"Transcription processing error", "Recording stream error"} :
                    pl'[p].errorCh = Append(pl[p].errorCh, msg)]_vars

\* the mailbox holds 10 errors and both forwarders have gone on offering: every error
\* of both streams was handed to sendError, the last ones with the mailbox full
C31_Overflowed ==
    \E p \in Pipelines :
        /\ Len(pl[p].errorCh) = 10
        /\ pl[p].tErrs + pl[p].rErrs > 10
        /\ pl[p].tErrs = MaxStreamErrors /\ pl[p].rErrs = MaxStreamErrors

---------------------------------------------------------------------------
(* The end of a worker *)

\* C32: on every exit path the worker clears the running flag and sets the state Idle
\* before it signals completion, so that when Stop returns for a pipeline that was
\* run, the state is Idle and the running flag is false
C32_IdleBeforeDone ==
    [][/\ \A p \in Pipelines :
            pl'[p].workers < pl[p].workers =>
                /\ ~pl[p].running
                /\ ~pl'[p].running
                /\ pl'[p].status = Idle
       /\ \A c \in Conns :
            Leaves(c, "stop_wait") =>
                /\ pl[conn[c].p].started >= 1
                /\ pl'[conn[c].p].status = Idle
                /\ ~pl'[conn[c].p].running]_vars

\* a session that ran into its deadline has ended: Idle, not running, no worker
C32_EndedByDeadline ==
    \E p \in Pipelines :
        /\ pl[p].ctx = "deadline"
        /\ pl[p].wpc = "done"
        /\ pl[p].workers = 0
        /\ pl[p].status = Idle /\ ~pl[p].running

---------------------------------------------------------------------------
(* The state Transcribing *)

\* C33: the state becomes Transcribing only after the transcriber was started
\* successfully: a session whose transcriber cannot be constructed or started goes
\* from Recording to Idle with an error and is never seen in the state Transcribing
C33_TranscribingAfterStart ==
    [][\A p \in Pipelines :
          /\ pl'[p].status = Transcribing => pl'[p].wpc \notin {"record", "tstart"}
          /\ (Goes(p, "record", "exit") \/ Goes(p, "tstart", "exit")) =>
                /\ pl[p].status = Recording
                /\ Len(pl'[p].errorCh) = Len(pl[p].errorCh) + 1]_vars

---------------------------------------------------------------------------
(* The reload callback *)

\* C34: the reload callback stops the active pipeline (the reference is cleared and
\* that pipeline is Idle), then swaps the notifier to the one the new snapshot selects,
\* then emits 'Config Reloaded' through the notifier that is current after the swap
C34_ReloadOrder ==
    [][reload.pc = "swap" /\ reload'.pc = "idle" =>
          /\ reload.p # NoPipeline =>
                /\ daemon.pipeline # reload.p
                /\ pl[reload.p].status = Idle
          /\ daemon'.notifier = cfgStore.notify
          /\ reload'.via = daemon'.notifier]_vars

---------------------------------------------------------------------------
(* The lock of the daemon *)

\* C35: every read and write of the pipeline reference, the notifier and the mode
\* override is made with the daemon's lock held, so that no task reads the notifier
\* while another is replacing it: the error monitor passes no error to the notifier,
\* and no handler takes a step under the lock, while the reload callback holds the
\* lock to replace the notifier
C35_NoReadWhileReplacing ==
    [][reload.pc = "locked" =>
          /\ \A p \in Pipelines : Len(pl'[p].errorCh) >= Len(pl[p].errorCh)
          /\ daemon'.pipeline = daemon.pipeline
          /\ daemon'.modeOverride = daemon.modeOverride]_vars

\* C36: no task is at a blocking operation while it holds d.mu: a handler that sends
\* Inject, stops a session (cancel and wait) or captures the active window, and the
\* reload callback that stops a session or calls the notifier, hold no lock then
C36_NoBlockingUnderLock ==
    /\ \A c \in Conns :
          conn[c].pc \in {"t_create", "inj_send", "stop_cancel", "stop_wait"} => ~Holds(c)
    /\ reload.pc \in {"stop_cancel", "stop_wait", "swap"} => ~Holds(ReloadTask)

\* a handler waits in Stop() for a worker that has not finished while the reload
\* callback holds the lock
C36_WaitsWhileOtherHolds ==
    \E c \in Conns :
        /\ conn[c].pc = "stop_wait"
        /\ ~WaitDone(pl[conn[c].p])
        /\ Holds(ReloadTask)

\* C37: whenever the daemon holds a session in d.pipeline, that session is still in
\* progress: its worker has not signalled completion and its status is not Idle
C37_HeldSessionInProgress ==
    daemon.pipeline # NoPipeline =>
        /\ pl[daemon.pipeline].wpc # "done"
        /\ pl[daemon.pipeline].status # Idle

\* C38: an error in the mailbox of a session is eventually received by the monitor of
\* that session and passed to the notifier, whatever has become of the session (Idle,
\* completed, replaced in d.pipeline), unless the root context is cancelled
C38_ErrorsReachNotifier ==
    \A p \in 1..MaxToggles :
        (p \in Pipelines /\ Len(pl[p].errorCh) > 0)
            ~> (proc[Self].cancelled \/ (p \in Pipelines /\ Len(pl[p].errorCh) = 0))

\* a session that has completed and was replaced in d.pipeline, whose transcriber
\* reported an error, has an empty mailbox while the root context is live
C38_LateErrorPassed ==
    \E p \in Pipelines :
        /\ daemon.pipeline \notin {p, NoPipeline}
        /\ pl[p].wpc = "done"
        /\ pl[p].tErrs > 0
        /\ pl[p].monitors > 0
        /\ Len(pl[p].errorCh) = 0
        /\ ~proc[Self].cancelled

\* C39: when the worker has run its deferred calls, and so when it signals completion,
\* the recorder's Stop has been called at least once if the recorder was started and
\* the transcriber's Stop at least once if the transcriber was started
C39_StopsBeforeDone ==
    \A p \in Pipelines :
        pl[p].wpc \in {"cleanup", "done"} =>
            /\ pl[p].rStarted => pl[p].rStops >= 1
            /\ pl[p].tStarted => pl[p].tStops >= 1

\* a session that ran into its deadline has signalled completion with one Stop of each
\* component; another was stopped by the deferred call alone after its transcriber
\* failed to start
C39_StoppedOnExit ==
    /\ \E p \in Pipelines :
          /\ pl[p].wpc = "done" /\ pl[p].ctx = "deadline"
          /\ pl[p].tStarted /\ pl[p].tStops = 1 /\ pl[p].rStops = 1
    /\ \E p \in Pipelines :
          /\ pl[p].wpc = "done"
          /\ pl[p].rStarted /\ ~pl[p].tStarted /\ pl[p].rStops = 1 /\ pl[p].tStops = 0

\* C40: while the worker is in its supervision loop with the frame stream ended, a
\* step leaves the session Transcribing and in the loop and offers no error, unless it
\* is the handling of an Inject taken from the action mailbox or the session context
\* is done (cancel or deadline)
C40_EndOfStreamIgnored ==
    [][\A p \in 1..MaxToggles :
          (p \in Pipelines /\ pl[p].wpc = "loop" /\ pl[p].frameEnd) =>
              \/ /\ pl'[p].status = Transcribing
                 /\ pl'[p].wpc = "loop"
                 /\ pl'[p].errorCh = pl[p].errorCh
              \/ /\ pl[p].actionCh # <<>>
                 /\ Head(pl[p].actionCh) = Inject
                 /\ pl'[p].actionCh = Tail(pl[p].actionCh)
              \/ ctxDone(pl[p])]_vars

\* the worker has received from the ended stream as often as is followed and the
\* session is still Transcribing, in the loop, with no error offered
C40_StreamEnded ==
    \E p \in Pipelines :
        /\ pl[p].frameEnd
        /\ pl[p].spins = MaxSpins
        /\ pl[p].wpc = "loop"
        /\ pl[p].status = Transcribing
        /\ pl[p].errorCh = <<>>

====
